---------------------------- MODULE Spec2Model ----------------------------
(***************************************************************************)
(* A model of the serial control plane of oh-flash-tools:                  *)
(*   - the delimited stream readers (ioextra.ExpectEngine and the private  *)
(*     collectUntil / discardUntil of ubootshell.UBootShell),              *)
(*   - the u-boot shell driver (ubootshell.UBootShell),                    *)
(*   - the YMODEM sender (ymodem.Transfer, sendBlock, crc16),              *)
(*   - the flashing sequence of the board (boards.Hi3518ev300).            *)
(*                                                                         *)
(* Bytes are integers 0..255 and byte strings are sequences of bytes.      *)
(* The module holds eight specifications over one set of variables:        *)
(*   SpecExpect   the four readers applied to a delimiter and a stream,    *)
(*   SpecShell    the operations of one UBootShell,                        *)
(*   SpecTransfer one Transfer.SendTo session against an arbitrary peer,   *)
(*   SpecWrap     one session long enough for the block index to wrap,     *)
(*   SpecSendFile UBootShell.SendFile after the loady command,             *)
(*   SpecCrc      crc16 applied to one input,                              *)
(*   SpecFrame    sendBlock applied to one block,                          *)
(*   SpecFlash    Hi3518ev300.FlashAssets, call by call.                   *)
(* Each specification keeps the variables of the others at their idle      *)
(* values.                                                                 *)
(***************************************************************************)
EXTENDS Integers, Sequences, FiniteSets, TLC

VARIABLES
    \* ---- SpecExpect: a delimited reader applied to one input
    delim,          \* the expected bytes
    stream,         \* the bytes the bufio.Reader will deliver, then end of input
    eres,           \* the last call: [fn, ok, out, rest]
    \* ---- SpecShell: one UBootShell
    prompt,         \* UBootShell.prompt
    rd,             \* bytes delivered by the device and not yet read (uboot.reader)
    wr,             \* bytes the last operation wrote and flushed (uboot.writer)
    res,            \* the last operation: [op, arg, before, reply, had, ok, out];
                    \* arg of ProbePrompt is the number of writes the stream takes
    nops,           \* number of operations carried out
    panicked,       \* the process was aborted by panic()
    \* ---- SpecTransfer: one Transfer and its SendTo call
    pc,             \* position of SendTo
    blockKind,      \* Transfer.blockKind
    fileName,       \* file.Name()
    fileSize,       \* fileInfo.Size()
    retryCount,     \* Transfer.retryCount
    retryBudget,    \* the value given to WithRetryCount (never changes)
    hasObserver,    \* Transfer.observer != nil
    observed,       \* the calls made on the observer, in order
    fileBytesSent,  \* Transfer.fileBytesSent
    blockIdx,       \* loop variable of sendFileData
    blockLen,       \* n, the length of the block read from the file
    filePos,        \* the read offset of tr.file
    out,            \* the stream.Write calls made, in order
    inlog,          \* the results of the stream.Read calls made, in order
    err,            \* what SendTo returned
    \* ---- SpecCrc and SpecFrame: one call of crc16, one call of sendBlock
    crcData,        \* the argument of crc16
    crc,            \* [called, value]: what crc16 returned
    blk,            \* the arguments of sendBlock: [blockKind, blockIdx, data, padding]
    frame,          \* [called, bytes]: what sendBlock wrote to the stream
    \* ---- SpecFlash: one call of Hi3518ev300.FlashAssets
    assets,         \* the paths of openharmony.Assets
    flashPc,        \* position of FlashAssets
    sent,           \* the calls made on the UBootShell, in order
    flashErr        \* FlashAssets returned an error

expectVars == <<delim, stream, eres>>
shellVars == <<prompt, rd, wr, res, nops, panicked>>
transferVars == <<pc, blockKind, fileName, fileSize, retryCount, retryBudget, hasObserver, observed, fileBytesSent, filePos, blockIdx, blockLen, out, inlog, err>>
pureVars == <<crcData, crc, blk, frame>>
flashVars == <<assets, flashPc, sent, flashErr>>
vars == <<expectVars, shellVars, transferVars, pureVars, flashVars>>

(***************************************************************************)
(* Bounds of the model.                                                    *)
(***************************************************************************)
\* longest delimiter handed to a reader in SpecExpect
MaxDelim == 3
\* longest input stream in SpecExpect
MaxStream == 6
\* most operations carried out on the UBootShell in SpecShell
MaxOps == 2
\* longest generated command output in SpecShell
MaxOutput == 1
\* largest retry count given to WithRetryCount in SpecTransfer
MaxRetry == 3
\* the files sent in SpecTransfer hold up to MaxFullBlocks full blocks and one byte
MaxFullBlocks == 1
\* longest generated input of crc16 in SpecCrc
MaxCrcLen == 2
\* the payloads of SpecFrame fall short of a whole block by up to MaxTail bytes
MaxTail == 1
\* largest of the first block indexes handed to sendBlock with large blocks in SpecFrame
MaxLargeIdx == 2

\* the number of data blocks of the long session, which lets the block index wrap
MaxDataBlocks == 257

(***************************************************************************)
(* Byte strings.                                                           *)
(***************************************************************************)
\* all sequences over S of length 0..k
RECURSIVE SeqsUpTo(_, _)
SeqsUpTo(S, k) == IF k = 0 THEN {<<>>} ELSE LET shorter == SeqsUpTo(S, k - 1) IN shorter \cup {Append(s, x) : s \in {t \in shorter : Len(t) = k - 1}, x \in S}

\* s[from..] in Go slice terms: s without its first k elements
Drop(s, k) == SubSeq(s, k + 1, Len(s))

\* s[:k]
Take(s, k) == SubSeq(s, 1, k)

\* whether d occurs in s starting at (0-based) offset k
OccursAt(d, s, k) == k + Len(d) <= Len(s) /\ SubSeq(s, k + 1, k + Len(d)) = d

\* whether d occurs somewhere in s
Occurs(d, s) == \E k \in 0..Len(s) : OccursAt(d, s, k)

(***************************************************************************)
(* ioextra.ExpectEngine over a bufio.Reader holding the byte string s.     *)
(* ReadByte takes the head of s and fails on the empty string;             *)
(* UnreadByte puts the byte just read back at the head.                    *)
(* A result is [ok, out, rest]: ok is err == nil, out the returned slice   *)
(* (empty when there is none), rest what is left unread.                   *)
(***************************************************************************)
RECURSIVE CollectUntilLoop(_, _, _, _)
CollectUntilLoop(expected, s, i, buf) ==
    IF i = Len(expected) THEN [ok |-> TRUE, out |-> Take(buf, Len(buf) - Len(expected)), rest |-> s]
    ELSE IF s = <<>> THEN [ok |-> FALSE, out |-> <<>>, rest |-> s]
    ELSE LET b == Head(s) IN
         IF i < Len(expected) /\ expected[i + 1] = b THEN CollectUntilLoop(expected, Tail(s), i + 1, Append(buf, b))
         ELSE IF i > 0 THEN CollectUntilLoop(expected, s, 0, Append(buf, b))
         ELSE CollectUntilLoop(expected, Tail(s), i, Append(buf, b))

\* CollectUntil returning collected as it is, the expected bytes included
CollectUntilKeepingExpected(expected, s) == LET r == CollectUntilLoop(expected, s, 0, <<>>) IN IF r.ok THEN [r EXCEPT !.out = r.out \o expected] ELSE r

CollectUntil(expected, s) == CollectUntilLoop(expected, s, 0, <<>>)

RECURSIVE DiscardUntilLoop(_, _, _)
DiscardUntilLoop(expected, s, i) ==
    IF i = Len(expected) THEN [ok |-> TRUE, out |-> <<>>, rest |-> s]
    ELSE IF s = <<>> THEN [ok |-> FALSE, out |-> <<>>, rest |-> s]
    ELSE LET b == Head(s) IN
         IF i < Len(expected) /\ expected[i + 1] = b THEN DiscardUntilLoop(expected, Tail(s), i + 1)
         ELSE IF i > 0 THEN DiscardUntilLoop(expected, s, 0)
         ELSE DiscardUntilLoop(expected, Tail(s), i)

DiscardUntil(expected, s) == DiscardUntilLoop(expected, s, 0)

(***************************************************************************)
(* The private readers of ubootshell.UBootShell over uboot.reader.         *)
(***************************************************************************)
RECURSIVE collectUntilLoop(_, _, _, _)
collectUntilLoop(expected, s, i, buf) ==
    IF i = Len(expected) THEN [ok |-> TRUE, out |-> Take(buf, Len(buf) - Len(expected)), rest |-> s]
    ELSE IF s = <<>> THEN [ok |-> FALSE, out |-> <<>>, rest |-> s]
    ELSE LET b == Head(s) IN
         IF i < Len(expected) /\ expected[i + 1] = b THEN collectUntilLoop(expected, Tail(s), i + 1, Append(buf, b))
         ELSE collectUntilLoop(expected, Tail(s), 0, Append(buf, b))

collectUntil(expected, s) == collectUntilLoop(expected, s, 0, <<>>)

RECURSIVE discardUntilLoop(_, _, _)
discardUntilLoop(expected, s, i) ==
    IF i = Len(expected) THEN [ok |-> TRUE, out |-> <<>>, rest |-> s]
    ELSE IF s = <<>> THEN [ok |-> FALSE, out |-> <<>>, rest |-> s]
    ELSE LET b == Head(s) IN
         IF i < Len(expected) /\ expected[i + 1] = b THEN discardUntilLoop(expected, Tail(s), i + 1)
         ELSE IF i > 0 THEN discardUntilLoop(expected, s, 0)
         ELSE discardUntilLoop(expected, Tail(s), i)

\* discardUntil returning nil when the input ends as well
discardUntilIgnoringEOF(expected, s) == LET r == discardUntilLoop(expected, s, 0) IN [r EXCEPT !.ok = TRUE]

discardUntil(expected, s) == discardUntilLoop(expected, s, 0)

(***************************************************************************)
(* SpecExpect: each reader applied to every delimiter of 1..MaxDelim bytes *)
(* and every stream of 0..MaxStream bytes over a three-letter alphabet.    *)
(***************************************************************************)
\* the letters "a", "b", "c"
Alphabet == {97, 98, 99}

\* "abab"
Abab == <<97, 98, 97, 98>>

\* the delimiters: every non-empty one of up to MaxDelim bytes, and "abab"
Delims == (SeqsUpTo(Alphabet, MaxDelim) \ {<<>>}) \cup {Abab}

Streams == SeqsUpTo(Alphabet, MaxStream)

NoCall == [fn |-> "none", ok |-> FALSE, out |-> <<>>, rest |-> <<>>]

Called(fn, r) == [fn |-> fn, ok |-> r.ok, out |-> r.out, rest |-> r.rest]

ShellIdle ==
    /\ prompt = <<>>
    /\ rd = <<>>
    /\ wr = <<>>
    /\ res = [op |-> "none", arg |-> <<>>, before |-> <<>>, reply |-> <<>>, had |-> <<>>, ok |-> FALSE, out |-> <<>>]
    /\ nops = 0
    /\ panicked = FALSE

TransferIdle ==
    /\ pc = "idle"
    /\ blockKind = FALSE
    /\ fileName = <<>>
    /\ fileSize = 0
    /\ retryCount = 0
    /\ retryBudget = 0
    /\ hasObserver = FALSE
    /\ observed = <<>>
    /\ fileBytesSent = 0
    /\ filePos = 0
    /\ blockIdx = 0
    /\ blockLen = 0
    /\ out = <<>>
    /\ inlog = <<>>
    /\ err = "none"

PureIdle ==
    /\ crcData = <<>>
    /\ crc = [called |-> FALSE, value |-> 0]
    /\ blk = [blockKind |-> FALSE, blockIdx |-> 0, data |-> <<>>, padding |-> 0]
    /\ frame = [called |-> FALSE, bytes |-> <<>>]

FlashIdle ==
    /\ assets = <<>>
    /\ flashPc = [fn |-> "idle", at |-> "idle", asset |-> 0]
    /\ sent = <<>>
    /\ flashErr = FALSE

ExpectIdle ==
    /\ delim = <<>>
    /\ stream = <<>>
    /\ eres = NoCall

InitExpect ==
    /\ delim \in Delims
    /\ stream \in Streams
    /\ eres = NoCall
    /\ ShellIdle
    /\ TransferIdle
    /\ PureIdle
    /\ FlashIdle

CallCollectUntil ==
    /\ eres' = Called("ExpectEngine.CollectUntil", CollectUntil(delim, stream))
    /\ UNCHANGED <<delim, stream, shellVars, transferVars, pureVars, flashVars>>

CallDiscardUntil ==
    /\ eres' = Called("ExpectEngine.DiscardUntil", DiscardUntil(delim, stream))
    /\ UNCHANGED <<delim, stream, shellVars, transferVars, pureVars, flashVars>>

CallShellCollectUntil ==
    /\ eres' = Called("UBootShell.collectUntil", collectUntil(delim, stream))
    /\ UNCHANGED <<delim, stream, shellVars, transferVars, pureVars, flashVars>>

CallShellDiscardUntil ==
    /\ eres' = Called("UBootShell.discardUntil", discardUntil(delim, stream))
    /\ UNCHANGED <<delim, stream, shellVars, transferVars, pureVars, flashVars>>

NextExpect == CallCollectUntil \/ CallDiscardUntil \/ CallShellCollectUntil \/ CallShellDiscardUntil

SpecExpect == InitExpect /\ [][NextExpect]_vars

(***************************************************************************)
(* ubootshell.UBootShell.  An operation runs on the byte string s that     *)
(* uboot.reader delivers before its input ends, with the prompt p recorded *)
(* so far, and yields                                                      *)
(*   [ok, out, rest, wrote, found, panic]:                                 *)
(* ok is err == nil, out the returned output, rest what is left unread,    *)
(* wrote the bytes written and flushed, found the prompt recorded on the   *)
(* driver when the operation ends, panic whether the operation panicked.   *)
(***************************************************************************)
\* "\n"
LF == <<10>>

\* "\r\n"
CRLF == <<13, 10>>

\* "Hit any key to stop autoboot"
AutobootMessage == <<72, 105, 116, 32, 97, 110, 121, 32, 107, 101, 121, 32, 116, 111, 32, 115, 116, 111, 112, 32, 97, 117, 116, 111, 98, 111, 111, 116>>

\* "reset"
ResetCmd == <<114, 101, 115, 101, 116>>

\* "resetting .."
ResetMessage == <<114, 101, 115, 101, 116, 116, 105, 110, 103, 32, 46, 46>>

\* "saveenv"
SaveEnvCmd == <<115, 97, 118, 101, 101, 110, 118>>

\* fmt.Sprintf(`setenv %s "%s"`, key, value)
SetEnvCmd(key, value) == <<115, 101, 116, 101, 110, 118, 32>> \o key \o <<32, 34>> \o value \o <<34>>

ShellResult(ok, o, rest, wrote, found) == [ok |-> ok, out |-> o, rest |-> rest, wrote |-> wrote, found |-> found, panic |-> FALSE]

\* panic("cannot send command without knowing u-boot prompt"): nothing is written or read
ShellPanic(p, s) == [ok |-> FALSE, out |-> <<>>, rest |-> s, wrote |-> <<>>, found |-> p, panic |-> TRUE]

\* bufio.Reader.ReadBytes(delim): the bytes up to and including the first delim;
\* when the input ends first, everything is consumed and an error returned
RECURSIVE ReadBytesLoop(_, _, _)
ReadBytesLoop(s, d, line) ==
    IF s = <<>> THEN [ok |-> FALSE, line |-> line, rest |-> s]
    ELSE IF Head(s) = d THEN [ok |-> TRUE, line |-> Append(line, d), rest |-> Tail(s)]
    ELSE ReadBytesLoop(Tail(s), d, Append(line, Head(s)))

\* ReadBytes returning the unterminated last line without an error
ReadBytesAcceptingEOF(s, d) == LET r == ReadBytesLoop(s, d, <<>>) IN [r EXCEPT !.ok = r.ok \/ r.line # <<>>]

ReadBytes(s, d) == ReadBytesLoop(s, d, <<>>)

\* bytes.TrimRight(line, cutset)
RECURSIVE TrimRight(_, _)
TrimRight(line, cutset) == IF line # <<>> /\ line[Len(line)] \in cutset THEN TrimRight(Take(line, Len(line) - 1), cutset) ELSE line

\* the for loop of ProbePrompt from its i-th round; taken is the number of
\* newlines the stream takes before Fprintf or Flush returns an error
RECURSIVE ProbePromptLoop(_, _, _, _, _)
ProbePromptLoop(p, s, wrote, i, taken) ==
    IF i >= 3 THEN ShellResult(FALSE, <<>>, s, wrote, p)
    ELSE IF i >= taken THEN ShellResult(FALSE, <<>>, s, wrote, p)
    ELSE LET w == wrote \o LF
             r == ReadBytes(s, 10)
         IN  IF ~r.ok THEN ShellResult(FALSE, <<>>, r.rest, w, p)
             ELSE LET candidate == TrimRight(r.line, {13, 10})
                  IN  IF Len(candidate) # 0 THEN ShellResult(TRUE, <<>>, r.rest, w, candidate)
                      ELSE ProbePromptLoop(p, r.rest, w, i + 1, taken)

\* ProbePrompt going on when a write of the newline returned an error
ProbePromptIgnoringWriteErrors(p, s, taken) == ProbePromptLoop(p, s, <<>>, 0, 3)

ProbePrompt(p, s, taken) == ProbePromptLoop(p, s, <<>>, 0, taken)

\* InterruptBoot sending its newline before it looks for the autoboot message
InterruptBootWriteFirst(p, s) ==
    LET d == discardUntil(AutobootMessage, s)
    IN  IF ~d.ok THEN ShellResult(FALSE, <<>>, d.rest, LF, p)
        ELSE LET e == discardUntil(LF, d.rest) IN ShellResult(e.ok, <<>>, e.rest, LF, p)

InterruptBoot(p, s) ==
    LET d == discardUntil(AutobootMessage, s)
    IN  IF ~d.ok THEN ShellResult(FALSE, <<>>, d.rest, <<>>, p)
        ELSE LET e == discardUntil(LF, d.rest) IN ShellResult(e.ok, <<>>, e.rest, LF, p)

regularCmd(p, s, cmd) ==
    IF Len(p) = 0 THEN ShellPanic(p, s)
    ELSE LET w == cmd \o LF
             d == discardUntil(cmd \o CRLF, s)
         IN  IF ~d.ok THEN ShellResult(FALSE, <<>>, d.rest, w, p)
             ELSE LET c == collectUntil(p, d.rest)
                  IN  IF ~c.ok THEN ShellResult(FALSE, <<>>, c.rest, w, p)
                      ELSE ShellResult(TRUE, c.out, c.rest, w, p)

\* specialCmd going on to wait for the prompt after the sentinel
specialCmdWaitingForPrompt(p, s, cmd, after) ==
    IF Len(p) = 0 THEN ShellPanic(p, s)
    ELSE LET w == cmd \o LF
             d == discardUntil(cmd \o CRLF, s)
         IN  IF ~d.ok THEN ShellResult(FALSE, <<>>, d.rest, w, p)
             ELSE LET a == discardUntil(after, d.rest)
                  IN  IF ~a.ok THEN ShellResult(FALSE, <<>>, a.rest, w, p)
                      ELSE LET c == discardUntil(p, a.rest) IN ShellResult(c.ok, <<>>, c.rest, w, p)

specialCmd(p, s, cmd, after) ==
    IF Len(p) = 0 THEN ShellPanic(p, s)
    ELSE LET w == cmd \o LF
             d == discardUntil(cmd \o CRLF, s)
         IN  IF ~d.ok THEN ShellResult(FALSE, <<>>, d.rest, w, p)
             ELSE LET a == discardUntil(after, d.rest) IN ShellResult(a.ok, <<>>, a.rest, w, p)

Command(p, s, cmd) == regularCmd(p, s, cmd)

WaitForPrompt(p, s) == LET d == discardUntil(p, s) IN ShellResult(d.ok, <<>>, d.rest, <<>>, p)

SpecialCommand(p, s, cmd, waitFor) == specialCmd(p, s, cmd, waitFor)

Reset(p, s) == specialCmd(p, s, ResetCmd, ResetMessage)

SetEnv(p, s, key, value) == LET r == regularCmd(p, s, SetEnvCmd(key, value)) IN [r EXCEPT !.out = <<>>]

SaveEnv(p, s) == LET r == regularCmd(p, s, SaveEnvCmd) IN [r EXCEPT !.out = <<>>]

(***************************************************************************)
(* SpecShell: at most MaxOps operations on one UBootShell.  During each    *)
(* operation the device delivers one of a set of replies after whatever    *)
(* was left unread; the operation sees those bytes and then the end of     *)
(* input.                                                                  *)
(***************************************************************************)
\* "hisilicon # "
HisiliconPrompt == <<104, 105, 115, 105, 108, 105, 99, 111, 110, 32, 35, 32>>

\* "getinfo version"
GetInfoVersion == <<103, 101, 116, 105, 110, 102, 111, 32, 118, 101, 114, 115, 105, 111, 110>>

\* "U-Boot 2020.01\r\n"
UBootVersion == <<85, 45, 66, 111, 111, 116, 32, 50, 48, 50, 48, 46, 48, 49, 13, 10>>

\* the command texts: "v" and "getinfo version"
Cmds == {<<118>>, GetInfoVersion}

\* the sentinels of special commands: "ok" and "## Ready\r\n"
Sentinels == {<<111, 107>>, <<35, 35, 32, 82, 101, 97, 100, 121, 13, 10>>}

\* the letters of device output: "h", "#", "\n"
OutputAlphabet == {104, 35, 10}

\* the outputs of a command
Outputs == SeqsUpTo(OutputAlphabet, MaxOutput) \cup {UBootVersion}

\* what the device may deliver while ProbePrompt runs
ProbeReplies == {
    <<>>,
    CRLF \o CRLF \o CRLF,
    CRLF \o CRLF \o HisiliconPrompt,
    CRLF \o CRLF \o HisiliconPrompt \o LF,
    CRLF \o CRLF \o HisiliconPrompt \o CRLF,
    CRLF \o HisiliconPrompt \o CRLF \o HisiliconPrompt,
    HisiliconPrompt \o CRLF,
    <<61, 62, 32>> \o LF }

\* what the device may deliver while a command runs whose text is echoed as
\* text "\r\n" and whose end is marked by the bytes of last
Replies(text, last) ==
    {text \o CRLF \o o \o last : o \in Outputs}
    \cup {text \o CRLF \o o : o \in Outputs}
    \cup {o \o last : o \in Outputs}

\* what the device may deliver while a special command runs: as above, or
\* the echo and the sentinel with the prompt p right behind them
SpecialReplies(text, last, p) == Replies(text, last) \cup {text \o CRLF \o last \o p}

\* what the device may deliver while InterruptBoot runs
BootReplies == {<<>>, AutobootMessage, AutobootMessage \o <<32, 49>> \o CRLF, <<85>> \o AutobootMessage \o <<32, 48>> \o CRLF \o HisiliconPrompt, HisiliconPrompt}

InitShell ==
    /\ ShellIdle
    /\ ExpectIdle
    /\ TransferIdle
    /\ PureIdle
    /\ FlashIdle

\* operation op with arguments arg ran on rd \o reply and ended as r
ShellStep(op, arg, reply, r) ==
    /\ prompt' = r.found
    /\ rd' = IF r.panic THEN rd ELSE r.rest
    /\ wr' = r.wrote
    /\ res' = [op |-> op, arg |-> arg, before |-> rd, reply |-> reply, had |-> prompt, ok |-> r.ok, out |-> r.out]
    /\ nops' = nops + 1
    /\ panicked' = r.panic
    /\ UNCHANGED <<expectVars, transferVars, pureVars, flashVars>>

ShellReady == nops < MaxOps /\ ~panicked

DoInterruptBoot == ShellReady /\ \E reply \in BootReplies : ShellStep("InterruptBoot", <<>>, reply, InterruptBoot(prompt, rd \o reply))

\* the number of writes that the stream takes before one fails (3: no write of ProbePrompt fails)
WritesTaken == 0..3

\* ProbePrompt on a stream that takes the first taken newlines; taken is logged as res.arg
DoProbePrompt == ShellReady /\ \E reply \in ProbeReplies, taken \in WritesTaken : ShellStep("ProbePrompt", <<taken>>, reply, ProbePrompt(prompt, rd \o reply, taken))

DoCommand == ShellReady /\ \E cmd \in Cmds : \E reply \in Replies(cmd, prompt) : ShellStep("Command", <<cmd>>, reply, Command(prompt, rd \o reply, cmd))

DoWaitForPrompt == ShellReady /\ \E reply \in Replies(<<>>, prompt) : ShellStep("WaitForPrompt", <<>>, reply, WaitForPrompt(prompt, rd \o reply))

DoSpecialCommand == ShellReady /\ \E cmd \in Cmds, waitFor \in Sentinels : \E reply \in SpecialReplies(cmd, waitFor, prompt) : ShellStep("SpecialCommand", <<cmd, waitFor>>, reply, SpecialCommand(prompt, rd \o reply, cmd, waitFor))

DoReset == ShellReady /\ \E reply \in SpecialReplies(ResetCmd, ResetMessage, prompt) : ShellStep("Reset", <<>>, reply, Reset(prompt, rd \o reply))

DoSetEnv == ShellReady /\ \E key \in {<<107>>}, value \in {<<118>>} : \E reply \in Replies(SetEnvCmd(key, value), prompt) : ShellStep("SetEnv", <<key, value>>, reply, SetEnv(prompt, rd \o reply, key, value))

DoSaveEnv == ShellReady /\ \E reply \in Replies(SaveEnvCmd, prompt) : ShellStep("SaveEnv", <<>>, reply, SaveEnv(prompt, rd \o reply))

NextShell == DoInterruptBoot \/ DoProbePrompt \/ DoCommand \/ DoWaitForPrompt \/ DoSpecialCommand \/ DoReset \/ DoSetEnv \/ DoSaveEnv

SpecShell == InitShell /\ [][NextShell]_vars

(***************************************************************************)
(* ymodem: control bytes, block kinds, the file, the blocks.               *)
(***************************************************************************)
asciiSOH == 1
asciiSTX == 2
asciiEOT == 4
asciiACK == 6
asciiNAK == 21
asciiCAN == 24
ymodemPOLL == 67

SmallBlock == FALSE

LargeBlock == TRUE

\* BlockKind.size()
size(b) == IF b = LargeBlock THEN 1024 ELSE 128

\* the file paths handed to os.Open: "/tmp/OHOS_Image.bin" and "rootfs.img"
FileNames == {<<47, 116, 109, 112, 47, 79, 72, 79, 83, 95, 73, 109, 97, 103, 101, 46, 98, 105, 110>>, <<114, 111, 111, 116, 102, 115, 46, 105, 109, 103>>}

\* the sizes of the files sent with blocks of blockSize bytes: around every
\* multiple of the block size up to MaxFullBlocks blocks
FileSizes(blockSize) == {k * blockSize + d : k \in 0..MaxFullBlocks, d \in {-1, 0, 1}} \cap Nat

\* a file of 2500 bytes, sent with large blocks
LongFileSizes(blockSize) == IF blockSize = 1024 THEN {2500} ELSE {}

\* the size of the file of the long session, sent with small blocks
WrapFileSizes(blockSize) == IF blockSize = 128 THEN {MaxDataBlocks * 128} ELSE {}

\* what a call of stream.Read may deliver to readControlByte: a byte of the
\* peer, or an error (ReadError)
PeerBytes == {ymodemPOLL, asciiACK, asciiNAK, asciiCAN}

ReadError == -1

\* filepath.Base on a slash-separated path
RECURSIVE StripTrailingSlashes(_)
StripTrailingSlashes(path) == IF Len(path) > 0 /\ path[Len(path)] = 47 THEN StripTrailingSlashes(Take(path, Len(path) - 1)) ELSE path

RECURSIVE AfterLastSlash(_, _)
AfterLastSlash(path, i) == IF i = 0 THEN path ELSE IF path[i] = 47 THEN Drop(path, i) ELSE AfterLastSlash(path, i - 1)

Base(path) ==
    IF path = <<>> THEN <<46>>
    ELSE LET stripped == StripTrailingSlashes(path)
             last == AfterLastSlash(stripped, Len(stripped))
         IN  IF last = <<>> THEN <<47>> ELSE last

\* fmt.Sprintf("%d", n) for n >= 0
RECURSIVE Decimal(_)
Decimal(n) == IF n < 10 THEN <<48 + n>> ELSE Decimal(n \div 10) \o <<48 + (n % 10)>>

\* the info block made of file.Name() as it is, directories included
infoBlockWithPath(name, fsize) == name \o <<0>> \o Decimal(fsize)

infoBlockForFile(name, fsize) == Base(name) \o <<0>> \o Decimal(fsize)

\* numBlocks computed as size/blockSize + 1, which is one too many for a
\* size that is a multiple of the block size
NumBlocksOneMore(fsize, blockSize) == fsize \div blockSize + 1

\* numBlocks of sendFileData
NumBlocks(fsize, blockSize) == (fsize + blockSize - 1) \div blockSize

\* a Read that fills the block whatever is left of the file
FileReadWholeBlock(fsize, pos, blockSize) == blockSize

\* n of tr.file.Read(blockData) with the file offset at pos
FileRead(fsize, pos, blockSize) == IF fsize - pos < blockSize THEN fsize - pos ELSE blockSize

\* the payload handed to sendBlock: explicit bytes, or the len bytes of the
\* file that start at offset off
BytesPayload(bytes) == [src |-> "bytes", bytes |-> bytes, off |-> 0, len |-> Len(bytes)]

FilePayload(off, len) == [src |-> "file", bytes |-> <<>>, off |-> off, len |-> len]

\* the Write calls: sendBlock(stream, kind, idx, data, padding) writing one
\* frame, and a Write of plain bytes; ok tells whether the stream took it
BlockWrite(kind, idx, data, padding, ok) == [w |-> "block", kind |-> kind, idx |-> idx, data |-> data, padding |-> padding, bytes |-> <<>>, ok |-> ok]

BytesWrite(bytes, ok) == [w |-> "bytes", kind |-> FALSE, idx |-> 0, data |-> BytesPayload(<<>>), padding |-> 0, bytes |-> bytes, ok |-> ok]

\* the deferred function seeing only the errors of SendTo's own reads and
\* writes, not those of sendFileInfo and sendFileData
deferredAbortOwnErrors(o, e) == IF e \in {"read", "write"} THEN Append(o, BytesWrite(<<asciiCAN, asciiCAN>>, TRUE)) ELSE o

\* the deferred function of SendTo: if we fail, tell the other side to abort
\* (the result of that Write is ignored)
deferredAbort(o, e) == IF e # "none" THEN Append(o, BytesWrite(<<asciiCAN, asciiCAN>>, TRUE)) ELSE o

\* the observer's methods, called only on an observer that is there
Notify(calls, has, call) == IF has THEN Append(calls, call) ELSE calls

(***************************************************************************)
(* SpecTransfer: Transfer.SendTo, one action per read or write on the      *)
(* stream.  The peer, the stream and the file are arbitrary: every read of *)
(* the stream delivers any byte of PeerBytes or fails, every write         *)
(* succeeds or fails, and so does every access to the file.                *)
(***************************************************************************)
InitTransfer ==
    /\ pc = "AwaitPollForInfo"
    /\ blockKind \in {SmallBlock, LargeBlock}
    /\ fileName \in FileNames
    /\ fileSize \in FileSizes(size(blockKind)) \cup LongFileSizes(size(blockKind))
    /\ retryCount \in 0..MaxRetry
    /\ retryBudget = retryCount
    /\ hasObserver \in BOOLEAN
    /\ observed = <<>>
    /\ fileBytesSent = 0
    /\ filePos = 0
    /\ blockIdx = 0
    /\ blockLen = 0
    /\ out = <<>>
    /\ inlog = <<>>
    /\ err = "none"
    /\ ExpectIdle
    /\ ShellIdle
    /\ PureIdle
    /\ FlashIdle

\* SendTo returns e after the writes o; the deferred function runs first
Return(o, e) ==
    /\ out' = deferredAbort(o, e)
    /\ err' = e
    /\ pc' = IF e = "none" THEN "done" ELSE "failed"

\* SendTo goes on at position next
Goto(next) == pc' = next /\ UNCHANGED <<out, err>>

\* readControlByte at position at going on at next whatever byte was read
ExpectControlByteLenient(at, want, next) ==
    /\ pc = at
    /\ \E b \in PeerBytes \cup {ReadError} :
        /\ inlog' = Append(inlog, b)
        /\ IF b = ReadError THEN Return(out, "read")
           ELSE IF next = "done" THEN Return(out, "none")
           ELSE Goto(next)

\* readControlByte at position at: want goes on at next, anything else fails
ExpectControlByte(at, want, next) ==
    /\ pc = at
    /\ \E b \in PeerBytes \cup {ReadError} :
        /\ inlog' = Append(inlog, b)
        /\ IF b = ReadError THEN Return(out, "read")
           ELSE IF b # want THEN Return(out, "desync")
           ELSE IF next = "done" THEN Return(out, "none")
           ELSE Goto(next)

\* sendFileInfo: wait for the receiver to request a file by sending 'C',
\* then prepare the info block, for which file.Stat() may fail
AwaitPollForInfo ==
    /\ pc = "AwaitPollForInfo"
    /\ \E b \in PeerBytes \cup {ReadError}, statOk \in BOOLEAN :
        /\ inlog' = Append(inlog, b)
        /\ IF b = ReadError THEN statOk /\ Return(out, "read")
           ELSE IF b # ymodemPOLL THEN statOk /\ Return(out, "desync")
           ELSE IF ~statOk THEN Return(out, "file")
           ELSE Goto("SendInfo")
    /\ UNCHANGED <<blockKind, fileName, fileSize, retryCount, retryBudget, hasObserver, observed, fileBytesSent, filePos, blockIdx, blockLen>>
    /\ UNCHANGED <<expectVars, shellVars, pureVars, flashVars>>

\* sendFileInfo: send the initial block with zero-byte padding
SendInfo ==
    /\ pc = "SendInfo"
    /\ \E ok \in BOOLEAN :
        LET o == Append(out, BlockWrite(blockKind, 0, BytesPayload(infoBlockForFile(fileName, fileSize)), 0, ok))
        IN  IF ok THEN out' = o /\ pc' = "InfoResponse" /\ err' = err ELSE Return(o, "write")
    /\ UNCHANGED <<blockKind, fileName, fileSize, retryCount, retryBudget, hasObserver, observed, fileBytesSent, filePos, blockIdx, blockLen, inlog>>
    /\ UNCHANGED <<expectVars, shellVars, pureVars, flashVars>>

\* sendFileInfo: did the bootloader acknowledge the request?
InfoResponse ==
    /\ pc = "InfoResponse"
    /\ \E b \in PeerBytes \cup {ReadError} :
        /\ inlog' = Append(inlog, b)
        /\ IF b = ReadError THEN Return(out, "read") /\ retryCount' = retryCount
           ELSE IF b = asciiACK THEN Goto("AwaitPollForData") /\ retryCount' = retryCount
           ELSE IF b = asciiNAK THEN
                /\ retryCount' = retryCount - 1
                /\ IF retryCount' < 0 THEN Return(out, "retries") ELSE Goto("SendInfo")
           ELSE IF b = asciiCAN THEN Goto("ReadAfterCancel") /\ retryCount' = retryCount
           ELSE Return(out, "desync") /\ retryCount' = retryCount
    /\ UNCHANGED <<blockKind, fileName, fileSize, retryBudget, hasObserver, observed, fileBytesSent, filePos, blockIdx, blockLen>>
    /\ UNCHANGED <<expectVars, shellVars, pureVars, flashVars>>

\* case asciiCAN with the error of the stream.Read ignored
ReadAfterCancelIgnoringError ==
    /\ pc = "ReadAfterCancel"
    /\ \E k \in 0..3 :
        IF k = 0 THEN inlog' = Append(inlog, ReadError) /\ Return(out, "rejected")
        ELSE inlog' = inlog \o [i \in 1..k |-> asciiCAN] /\ Return(out, "rejected")
    /\ UNCHANGED <<blockKind, fileName, fileSize, retryCount, retryBudget, hasObserver, observed, fileBytesSent, filePos, blockIdx, blockLen>>
    /\ UNCHANGED <<expectVars, shellVars, pureVars, flashVars>>

\* sendFileInfo, case asciiCAN: one stream.Read into a 3-byte buffer, which
\* delivers 1..3 bytes or fails (k = 0)
ReadAfterCancel ==
    /\ pc = "ReadAfterCancel"
    /\ \E k \in 0..3 :
        IF k = 0 THEN inlog' = Append(inlog, ReadError) /\ Return(out, "read")
        ELSE inlog' = inlog \o [i \in 1..k |-> asciiCAN] /\ Return(out, "rejected")
    /\ UNCHANGED <<blockKind, fileName, fileSize, retryCount, retryBudget, hasObserver, observed, fileBytesSent, filePos, blockIdx, blockLen>>
    /\ UNCHANGED <<expectVars, shellVars, pureVars, flashVars>>

\* sendFileData from the head of its for loop with blockIdx = idx: read the
\* next block of the file, which may fail, or leave the loop and tell the
\* observer
DataLoop(idx, pos, calls) ==
    /\ blockIdx' = idx
    /\ IF idx < NumBlocks(fileSize, size(blockKind))
       THEN \E readOk \in BOOLEAN :
            IF readOk
            THEN /\ blockLen' = FileRead(fileSize, pos, size(blockKind))
                 /\ filePos' = pos + blockLen'
                 /\ observed' = calls
                 /\ Goto("SendData")
            ELSE /\ blockLen' = blockLen
                 /\ filePos' = pos
                 /\ observed' = calls
                 /\ Return(out, "file")
       ELSE /\ blockLen' = blockLen
            /\ filePos' = pos
            /\ observed' = Notify(calls, hasObserver, <<"Finish">>)
            /\ Goto("SendEOT")

\* sendFileData: wait until we are asked to send data blocks
AwaitPollForData ==
    /\ pc = "AwaitPollForData"
    /\ \E b \in PeerBytes \cup {ReadError} :
        /\ inlog' = Append(inlog, b)
        /\ IF b = ReadError THEN Return(out, "read") /\ UNCHANGED <<observed, filePos, blockIdx, blockLen>>
           ELSE IF b # ymodemPOLL THEN Return(out, "desync") /\ UNCHANGED <<observed, filePos, blockIdx, blockLen>>
           ELSE DataLoop(0, filePos, Notify(observed, hasObserver, <<"Start", fileName, fileSize>>))
    /\ UNCHANGED <<blockKind, fileName, fileSize, retryCount, retryBudget, hasObserver, fileBytesSent>>
    /\ UNCHANGED <<expectVars, shellVars, pureVars, flashVars>>

\* SendData handing blockIdx+1 to sendBlock as it is, not as a uint8
SendDataIndexNotWrapped ==
    /\ pc = "SendData"
    /\ \E ok \in BOOLEAN :
        LET o == Append(out, BlockWrite(blockKind, blockIdx + 1, FilePayload(filePos - blockLen, blockLen), 26, ok))
        IN  IF ok THEN out' = o /\ pc' = "DataResponse" /\ err' = err ELSE Return(o, "write")
    /\ UNCHANGED <<blockKind, fileName, fileSize, retryCount, retryBudget, hasObserver, observed, fileBytesSent, filePos, blockIdx, blockLen, inlog>>
    /\ UNCHANGED <<expectVars, shellVars, pureVars, flashVars>>

\* sendFileData: send block blockIdx+1 padded with 0x1A
SendData ==
    /\ pc = "SendData"
    /\ \E ok \in BOOLEAN :
        LET o == Append(out, BlockWrite(blockKind, (blockIdx + 1) % 256, FilePayload(filePos - blockLen, blockLen), 26, ok))
        IN  IF ok THEN out' = o /\ pc' = "DataResponse" /\ err' = err ELSE Return(o, "write")
    /\ UNCHANGED <<blockKind, fileName, fileSize, retryCount, retryBudget, hasObserver, observed, fileBytesSent, filePos, blockIdx, blockLen, inlog>>
    /\ UNCHANGED <<expectVars, shellVars, pureVars, flashVars>>

\* what the read after a data block may deliver: anything, but in the long
\* session, where the peer acknowledges every data block
DataAnswers == IF fileSize \in WrapFileSizes(size(blockKind)) THEN {asciiACK, ReadError} ELSE PeerBytes \cup {ReadError}

\* sendFileData: wait for the recepient to ack the block; the inner loop is
\* left after the first response, whatever it was
DataResponse ==
    /\ pc = "DataResponse"
    /\ \E b \in DataAnswers :
        /\ inlog' = Append(inlog, b)
        /\ retryCount' = IF b # ReadError /\ b # asciiACK THEN retryCount - 1 ELSE retryCount
        /\ IF b = ReadError THEN Return(out, "read") /\ UNCHANGED <<observed, fileBytesSent, filePos, blockIdx, blockLen>>
           ELSE IF b # asciiACK /\ retryCount' = 0 THEN Return(out, "retries") /\ UNCHANGED <<observed, fileBytesSent, filePos, blockIdx, blockLen>>
           ELSE /\ fileBytesSent' = fileBytesSent + blockLen
                /\ DataLoop(blockIdx + 1, filePos, Notify(observed, hasObserver, <<"Progress", fileBytesSent', fileSize>>))
    /\ UNCHANGED <<blockKind, fileName, fileSize, retryBudget, hasObserver>>
    /\ UNCHANGED <<expectVars, shellVars, pureVars, flashVars>>

\* SendTo, termination dance: writeControlByte(stream, asciiEOT)
SendEOT ==
    /\ pc = "SendEOT"
    /\ \E ok \in BOOLEAN :
        LET o == Append(out, BytesWrite(<<asciiEOT>>, ok))
        IN  IF ok THEN out' = o /\ pc' = "TerminationAck1" /\ err' = err ELSE Return(o, "write")
    /\ UNCHANGED <<blockKind, fileName, fileSize, retryCount, retryBudget, hasObserver, observed, fileBytesSent, filePos, blockIdx, blockLen, inlog>>
    /\ UNCHANGED <<expectVars, shellVars, pureVars, flashVars>>

\* SendTo, termination dance: the 1st and the 2nd ACK and the POLL
TerminationReads ==
    /\ \/ ExpectControlByte("TerminationAck1", asciiACK, "TerminationAck2")
       \/ ExpectControlByte("TerminationAck2", asciiACK, "TerminationPoll")
       \/ ExpectControlByte("TerminationPoll", ymodemPOLL, "SendTerminator")
    /\ UNCHANGED <<blockKind, fileName, fileSize, retryCount, retryBudget, hasObserver, observed, fileBytesSent, filePos, blockIdx, blockLen>>
    /\ UNCHANGED <<expectVars, shellVars, pureVars, flashVars>>

\* SendTo: send empty block to indicate completion
SendTerminator ==
    /\ pc = "SendTerminator"
    /\ \E ok \in BOOLEAN :
        LET o == Append(out, BlockWrite(blockKind, 0, BytesPayload(<<>>), 0, ok))
        IN  IF ok THEN out' = o /\ pc' = "FinalAck" /\ err' = err ELSE Return(o, "write")
    /\ UNCHANGED <<blockKind, fileName, fileSize, retryCount, retryBudget, hasObserver, observed, fileBytesSent, filePos, blockIdx, blockLen, inlog>>
    /\ UNCHANGED <<expectVars, shellVars, pureVars, flashVars>>

\* SendTo: the final termination ACK, then return nil
FinalAck ==
    /\ ExpectControlByte("FinalAck", asciiACK, "done")
    /\ UNCHANGED <<blockKind, fileName, fileSize, retryCount, retryBudget, hasObserver, observed, fileBytesSent, filePos, blockIdx, blockLen>>
    /\ UNCHANGED <<expectVars, shellVars, pureVars, flashVars>>

NextTransfer == AwaitPollForInfo \/ SendInfo \/ InfoResponse \/ ReadAfterCancel \/ AwaitPollForData \/ SendData \/ DataResponse \/ SendEOT \/ TerminationReads \/ SendTerminator \/ FinalAck

SpecTransfer == InitTransfer /\ [][NextTransfer]_vars

(***************************************************************************)
(* SpecWrap: Transfer.SendTo sending a file of MaxDataBlocks small blocks, *)
(* more than the 255 block indexes a byte can tell apart from the index 0  *)
(* of the info block.  The peer acknowledges every data block; anything    *)
(* else is as in SpecTransfer.                                             *)
(***************************************************************************)
InitWrap ==
    /\ pc = "AwaitPollForInfo"
    /\ blockKind = SmallBlock
    /\ fileName \in FileNames
    /\ fileSize \in WrapFileSizes(size(blockKind))
    /\ retryCount \in 0..MaxRetry
    /\ retryBudget = retryCount
    /\ hasObserver \in BOOLEAN
    /\ observed = <<>>
    /\ fileBytesSent = 0
    /\ filePos = 0
    /\ blockIdx = 0
    /\ blockLen = 0
    /\ out = <<>>
    /\ inlog = <<>>
    /\ err = "none"
    /\ ExpectIdle
    /\ ShellIdle
    /\ PureIdle
    /\ FlashIdle

SpecWrap == InitWrap /\ [][NextTransfer]_vars

(***************************************************************************)
(* SpecSendFile: UBootShell.SendFile the way flashAsset uses it.  The      *)
(* prompt is probed, SpecialCommand puts U-Boot into ymodem receive mode   *)
(* and SendFile runs Transfer.SendTo on uboot.rwc, the stream underneath   *)
(* uboot.reader, and then WaitForPrompt on uboot.reader.  Here rd is what  *)
(* uboot.reader has pulled from the stream and not yet handed out: the     *)
(* bytes of a reply arrive in one Read of the stream, so those behind the  *)
(* last byte an operation consumed stay in the buffer of uboot.reader.     *)
(* The reads of SendTo are reads of the stream and never see rd.           *)
(***************************************************************************)
\* "loady 0x41000000"
LoadyCmd == <<108, 111, 97, 100, 121, 32, 48, 120, 52, 49, 48, 48, 48, 48, 48, 48>>

\* "## Ready for binary (ymodem) download to 0x41000000 at 115200 bps...\r\n"
ReadyBanner == <<35, 35, 32, 82, 101, 97, 100, 121, 32, 102, 111, 114, 32, 98, 105, 110, 97, 114, 121, 32, 40, 121, 109, 111, 100, 101, 109, 41, 32, 100, 111, 119, 110, 108, 111, 97, 100, 32, 116, 111, 32, 48, 120, 52, 49, 48, 48, 48, 48, 48, 48, 32, 97, 116, 32, 49, 49, 53, 50, 48, 48, 32, 98, 112, 115, 46, 46, 46>> \o CRLF

\* WithRetryCount(10)
SendFileRetryCount == 10

\* what the device may deliver while the loady command runs: the echo and
\* the banner, with or without the receiver's first POLL right behind it,
\* or the echo and an error message
ReceiveModeReplies == {LoadyCmd \o CRLF \o ReadyBanner, LoadyCmd \o CRLF \o ReadyBanner \o <<ymodemPOLL>>, LoadyCmd \o CRLF \o <<35, 35, 32>> \o HisiliconPrompt}

\* SendFile returning only after it has waited for the prompt
SendFileReturnAfterPrompt(p, s, e) == LET r == WaitForPrompt(p, s) IN IF e # "none" THEN [r EXCEPT !.ok = FALSE] ELSE r

\* what SendFile does once SendTo has returned e: return e, or WaitForPrompt
SendFileReturn(p, s, e) == IF e # "none" THEN ShellResult(FALSE, <<>>, s, <<>>, p) ELSE WaitForPrompt(p, s)

InitSendFile ==
    /\ ShellIdle
    /\ ExpectIdle
    /\ TransferIdle
    /\ PureIdle
    /\ FlashIdle

\* ProbePrompt on the new driver
ProbeBeforeSendFile == res.op = "none" /\ \E reply \in ProbeReplies, taken \in WritesTaken : ShellStep("ProbePrompt", <<taken>>, reply, ProbePrompt(prompt, rd \o reply, taken))

\* flashAsset: SpecialCommand("loady 0x41000000", "## Ready for binary ...")
EnterReceiveMode ==
    /\ res.op = "ProbePrompt"
    /\ res.ok
    /\ \E reply \in ReceiveModeReplies : ShellStep("SpecialCommand", <<LoadyCmd, ReadyBanner>>, reply, SpecialCommand(prompt, rd \o reply, LoadyCmd, ReadyBanner))

\* SendFile up to the call of SendTo: os.Open and NewTransfer may fail, the
\* session gets large blocks, an observer and the retry count 10
SendFileBegin ==
    /\ res.op = "SpecialCommand"
    /\ res.ok
    /\ \E opened \in BOOLEAN, name \in FileNames, fsize \in FileSizes(size(LargeBlock)) :
        /\ res' = [op |-> IF opened THEN "SendFile.SendTo" ELSE "SendFile", arg |-> <<name>>, before |-> rd, reply |-> <<>>, had |-> prompt, ok |-> FALSE, out |-> <<>>]
        /\ IF opened
           THEN /\ pc' = "AwaitPollForInfo"
                /\ blockKind' = LargeBlock
                /\ fileName' = name
                /\ fileSize' = fsize
                /\ retryCount' = SendFileRetryCount
                /\ retryBudget' = SendFileRetryCount
                /\ hasObserver' = TRUE
           ELSE UNCHANGED <<pc, blockKind, fileName, fileSize, retryCount, retryBudget, hasObserver>>
    /\ wr' = <<>>
    /\ nops' = nops + 1
    /\ UNCHANGED <<prompt, rd, panicked, observed, fileBytesSent, filePos, blockIdx, blockLen, out, inlog, err>>
    /\ UNCHANGED <<expectVars, pureVars, flashVars>>

\* SendFile once SendTo has returned
SendFileEnd ==
    /\ res.op = "SendFile.SendTo"
    /\ pc \in {"done", "failed"}
    /\ \E reply \in (IF pc = "done" THEN Replies(<<>>, prompt) ELSE {<<>>}) :
        LET r == SendFileReturn(prompt, rd \o reply, err)
        IN  /\ rd' = r.rest
            /\ wr' = r.wrote
            /\ res' = [res EXCEPT !.op = "SendFile", !.reply = reply, !.ok = r.ok]
    /\ UNCHANGED <<prompt, nops, panicked>>
    /\ UNCHANGED <<expectVars, transferVars, pureVars, flashVars>>

NextSendFile == ProbeBeforeSendFile \/ EnterReceiveMode \/ SendFileBegin \/ NextTransfer \/ SendFileEnd

SpecSendFile == InitSendFile /\ [][NextSendFile]_vars

(***************************************************************************)
(* ymodem: crc16 and sendBlock, byte for byte.                             *)
(***************************************************************************)
\* a ^ b on unsigned integers
RECURSIVE Xor(_, _)
Xor(a, b) == IF a = 0 THEN b ELSE IF b = 0 THEN a ELSE ((a + b) % 2) + 2 * Xor(a \div 2, b \div 2)

\* a ^ w for a power of two w
FlipBit(a, w) == IF (a \div w) % 2 = 1 THEN a - w ELSE a + w

\* const crcPoly = 0x1021
crcPoly == 4129

\* a ^ crcPoly, bit by bit: 0x1021 is 0x1000 | 0x20 | 0x01
XorCrcPoly(a) == FlipBit(FlipBit(FlipBit(a, 4096), 32), 1)

\* crcUpdate on uint16: out = input << 1; out++ if increment; out ^= crcPoly
\* if the high bit of input was set
crcUpdate(input, increment) ==
    LET shifted == (input * 2) % 65536
        incremented == IF increment THEN (shifted + 1) % 65536 ELSE shifted
    IN  IF input \div 32768 # 0 THEN XorCrcPoly(incremented) ELSE incremented

\* the values of a uint16.  The loops below test their crc against it
\* before they go on: the test never fails, and it makes TLC evaluate the
\* crc of each step before the next step instead of all of them at the end.
uint16 == 0..65535

\* for i := byte(0x80); i > 0; i >>= 1 { crc = crcUpdate(crc, b&i != 0) }
RECURSIVE crcByte(_, _, _)
crcByte(c, b, i) == IF i = 0 \/ c \notin uint16 THEN c ELSE crcByte(crcUpdate(c, (b \div i) % 2 # 0), b, i \div 2)

\* for _, b := range data, over data[lo..hi]: the bytes are taken in order,
\* the range is halved only to keep the evaluation shallow
RECURSIVE crcRange(_, _, _, _)
crcRange(c, data, lo, hi) ==
    IF lo > hi \/ c \notin uint16 THEN c
    ELSE IF lo = hi THEN crcByte(c, data[lo], 128)
    ELSE LET mid == (lo + hi) \div 2 IN crcRange(crcRange(c, data, lo, mid), data, mid + 1, hi)

\* for i := 0; i < 16; i++ { crc = crcUpdate(crc, false) }
RECURSIVE crcFlush(_, _)
crcFlush(c, i) == IF i >= 16 \/ c \notin uint16 THEN c ELSE crcFlush(crcUpdate(c, FALSE), i + 1)

\* crc16 without the 16 trailing zero bits
crc16Unflushed(data) == crcRange(0, data, 1, Len(data))

crc16(data) == crcFlush(crcRange(0, data, 1, Len(data)), 0)

\* sendBlock with the CRC bytes in the other order
sendBlockCrcLowFirst(kind, idx, data, padding) ==
    LET body == data \o [i \in 1..(size(kind) - Len(data)) |-> padding]
        c == crc16(body)
    IN  <<IF kind = SmallBlock THEN asciiSOH ELSE asciiSTX, idx, Xor(idx, 255)>> \o body \o <<c % 256, c \div 256>>

\* the frame sendBlock writes: start of block, block index and its
\* complement, the data, the padding, the crc16 of data and padding
sendBlock(kind, idx, data, padding) ==
    LET body == data \o [i \in 1..(size(kind) - Len(data)) |-> padding]
        c == crc16(body)
    IN  <<IF kind = SmallBlock THEN asciiSOH ELSE asciiSTX, idx, Xor(idx, 255)>> \o body \o <<c \div 256, c % 256>>

(***************************************************************************)
(* SpecCrc: crc16 applied to one input.                                    *)
(***************************************************************************)
\* "123456789"
Digits == <<49, 50, 51, 52, 53, 54, 55, 56, 57>>

\* the bytes the generated inputs are made of
CrcAlphabet == {0, 1, 26, 49, 127, 128, 255}

\* every single byte, every sequence over CrcAlphabet of up to MaxCrcLen
\* bytes, and "123456789"
CrcInputs == SeqsUpTo(CrcAlphabet, MaxCrcLen) \cup {<<b>> : b \in 0..255} \cup {Digits}

InitCrc ==
    /\ crcData \in CrcInputs
    /\ crc = [called |-> FALSE, value |-> 0]
    /\ blk = [blockKind |-> FALSE, blockIdx |-> 0, data |-> <<>>, padding |-> 0]
    /\ frame = [called |-> FALSE, bytes |-> <<>>]
    /\ ExpectIdle
    /\ ShellIdle
    /\ TransferIdle
    /\ FlashIdle

CallCrc16 ==
    /\ ~crc.called
    /\ crc' = [called |-> TRUE, value |-> crc16(crcData)]
    /\ UNCHANGED <<crcData, blk, frame, expectVars, shellVars, transferVars, flashVars>>

NextCrc == CallCrc16

SpecCrc == InitCrc /\ [][NextCrc]_vars

(***************************************************************************)
(* SpecFrame: sendBlock applied to one block, on a stream that takes the   *)
(* whole frame.                                                            *)
(***************************************************************************)
\* "OHOS_Image.bin\x004096"
InfoPayload == <<79, 72, 79, 83, 95, 73, 109, 97, 103, 101, 46, 98, 105, 110, 0, 52, 48, 57, 54>>

\* the payloads handed to sendBlock with block size n: none, one byte, an
\* info block, a block of zeros, a whole block and up to MaxTail bytes less
FramePayloads(n) == {<<>>, <<26>>, InfoPayload, [i \in 1..n |-> 0]} \cup {[i \in 1..(n - t) |-> (i * 7) % 256] : t \in 0..MaxTail}

\* the padding bytes: of the info block and the terminator, of data blocks
FramePaddings == {0, 26}

\* the block indexes handed to sendBlock: every index with small blocks,
\* the first MaxLargeIdx and the last with large blocks
FrameIdxs(kind) == IF kind = SmallBlock THEN 0..255 ELSE 0..MaxLargeIdx \cup {255}

InitFrame ==
    /\ \E kind \in {SmallBlock, LargeBlock}, padding \in FramePaddings :
        \E idx \in FrameIdxs(kind), data \in FramePayloads(size(kind)) : blk = [blockKind |-> kind, blockIdx |-> idx, data |-> data, padding |-> padding]
    /\ frame = [called |-> FALSE, bytes |-> <<>>]
    /\ crcData = <<>>
    /\ crc = [called |-> FALSE, value |-> 0]
    /\ ExpectIdle
    /\ ShellIdle
    /\ TransferIdle
    /\ FlashIdle

CallSendBlock ==
    /\ ~frame.called
    /\ frame' = [called |-> TRUE, bytes |-> sendBlock(blk.blockKind, blk.blockIdx, blk.data, blk.padding)]
    /\ UNCHANGED <<crcData, crc, blk, expectVars, shellVars, transferVars, flashVars>>

NextFrame == CallSendBlock

SpecFrame == InitFrame /\ [][NextFrame]_vars

(***************************************************************************)
(* SpecFlash: Hi3518ev300.FlashAssets, one action per call it makes on the *)
(* UBootShell.  Every call succeeds or fails; a failed call ends           *)
(* FlashAssets with its error.                                             *)
(***************************************************************************)
\* const loadAddr = 0x41_000_000 of flashAsset
loadAddr == 1090519040

\* flashAddr, eraseSize and writeSize of flashBootLoader, flashKernel,
\* flashRootfs and flashUserfs
Partitions == [
    bootloader |-> [flashAddr |-> 0, eraseSize |-> 1048576, writeSize |-> 262144],
    kernel |-> [flashAddr |-> 1048576, eraseSize |-> 6291456, writeSize |-> 4128768],
    rootfs |-> [flashAddr |-> 7340032, eraseSize |-> 8388608, writeSize |-> 6750208],
    userfs |-> [flashAddr |-> 15728640, eraseSize |-> 1048576, writeSize |-> 65536]]

\* the order in which FlashAssets goes through the assets
AssetOrder == <<"bootloader", "kernel", "rootfs", "userfs">>

\* the values of openharmony.Assets: every path is empty or names a file
AssetPaths == [bootloader : {"", "u-boot.bin"}, kernel : {"", "OHOS_Image.bin"}, rootfs : {"", "rootfs.img"}, userfs : {"", "userfs.img"}]

\* a call made on the UBootShell: the method, the command without its
\* numbers, the numbers in the order they are printed, the file path
ShellCall(fn, cmd, nums, path) == [fn |-> fn, cmd |-> cmd, nums |-> nums, path |-> path]

\* the calls of flashAsset for partition part and file path
MemoryFill(part) == ShellCall("Command", "mw.b %#x 0xff %#x", <<loadAddr, part.writeSize>>, "")

LoadY == ShellCall("SpecialCommand", "loady %#x", <<loadAddr>>, "")

SendAsset(path) == ShellCall("SendFile", "", <<>>, path)

FlashErase(part) == ShellCall("Command", "sf erase %#x %#x", <<part.flashAddr, part.eraseSize>>, "")

FlashWrite(part) == ShellCall("Command", "sf write %#x %#x %#x", <<loadAddr, part.flashAddr, part.writeSize>>, "")

\* flashAsset without the test for an empty path
flashAssetCallUnconditional(at, part, path) ==
    CASE at = "entry" -> [calls |-> <<MemoryFill(part)>>, next |-> "loady"]
      [] at = "loady" -> [calls |-> <<LoadY>>, next |-> "SendFile"]
      [] at = "SendFile" -> [calls |-> <<SendAsset(path)>>, next |-> "sf erase"]
      [] at = "sf erase" -> [calls |-> <<FlashErase(part)>>, next |-> "sf write"]
      [] at = "sf write" -> [calls |-> <<FlashWrite(part)>>, next |-> "return"]

\* flashAsset at position at: the call it makes, if any, and where it goes
\* on; an empty path makes it return at once
flashAssetCall(at, part, path) ==
    CASE at = "entry" -> IF path = "" THEN [calls |-> <<>>, next |-> "return"] ELSE [calls |-> <<MemoryFill(part)>>, next |-> "loady"]
      [] at = "loady" -> [calls |-> <<LoadY>>, next |-> "SendFile"]
      [] at = "SendFile" -> [calls |-> <<SendAsset(path)>>, next |-> "sf erase"]
      [] at = "sf erase" -> [calls |-> <<FlashErase(part)>>, next |-> "sf write"]
      [] at = "sf write" -> [calls |-> <<FlashWrite(part)>>, next |-> "return"]

FlashAt(fn, at, asset) == [fn |-> fn, at |-> at, asset |-> asset]

InitFlash ==
    /\ assets \in AssetPaths
    /\ flashPc = FlashAt("FlashAssets", "getinfo version", 0)
    /\ sent = <<>>
    /\ flashErr = FALSE
    /\ ExpectIdle
    /\ ShellIdle
    /\ TransferIdle
    /\ PureIdle

\* the call c is made and FlashAssets goes on at next, whether c fails or not
FlashCallIgnoringError(c, next) ==
    /\ sent' = Append(sent, c)
    /\ \E ok \in BOOLEAN : flashPc' = next /\ flashErr' = (flashErr \/ ~ok)
    /\ UNCHANGED <<assets, expectVars, shellVars, transferVars, pureVars>>

\* the call c is made; FlashAssets goes on at next if it succeeds and returns
\* the error if it fails
FlashCall(c, next) ==
    /\ sent' = Append(sent, c)
    /\ \E ok \in BOOLEAN :
        IF ok THEN flashPc' = next /\ flashErr' = flashErr
        ELSE flashPc' = FlashAt("FlashAssets", "return", 0) /\ flashErr' = TRUE
    /\ UNCHANGED <<assets, expectVars, shellVars, transferVars, pureVars>>

\* FlashAssets: Command("getinfo version") and Command("sf probe 0")
FlashProbe ==
    /\ flashPc.fn = "FlashAssets"
    /\ \/ /\ flashPc.at = "getinfo version"
          /\ FlashCall(ShellCall("Command", "getinfo version", <<>>, ""), FlashAt("FlashAssets", "sf probe 0", 0))
       \/ /\ flashPc.at = "sf probe 0"
          /\ FlashCall(ShellCall("Command", "sf probe 0", <<>>, ""), FlashAt("flashAsset", "entry", 1))

\* where FlashAssets goes on when flashAsset has returned nil for asset k
AfterAsset(k) == IF k < Len(AssetOrder) THEN FlashAt("flashAsset", "entry", k + 1) ELSE FlashAt("configureUBoot", "bootcmd", 0)

\* flashBootLoader, flashKernel, flashRootfs, flashUserfs: one step of flashAsset
FlashAssetStep ==
    /\ flashPc.fn = "flashAsset"
    /\ LET name == AssetOrder[flashPc.asset]
           step == flashAssetCall(flashPc.at, Partitions[name], assets[name])
           next == IF step.next = "return" THEN AfterAsset(flashPc.asset) ELSE FlashAt("flashAsset", step.next, flashPc.asset)
       IN  IF step.calls = <<>>
           THEN flashPc' = next /\ UNCHANGED <<sent, flashErr, assets, expectVars, shellVars, transferVars, pureVars>>
           ELSE FlashCall(step.calls[1], next)

\* configureUBoot: SetEnv("bootcmd", ...), SetEnv("bootargs", ...), SaveEnv()
ConfigureUBoot ==
    /\ flashPc.fn = "configureUBoot"
    /\ \/ /\ flashPc.at = "bootcmd"
          /\ FlashCall(ShellCall("SetEnv", "bootcmd", <<>>, ""), FlashAt("configureUBoot", "bootargs", 0))
       \/ /\ flashPc.at = "bootargs"
          /\ FlashCall(ShellCall("SetEnv", "bootargs", <<>>, ""), FlashAt("configureUBoot", "saveenv", 0))
       \/ /\ flashPc.at = "saveenv"
          /\ FlashCall(ShellCall("SaveEnv", "", <<>>, ""), FlashAt("FlashAssets", "reset", 0))

\* FlashAssets: Reset(), then return nil
FlashReset ==
    /\ flashPc = FlashAt("FlashAssets", "reset", 0)
    /\ FlashCall(ShellCall("Reset", "", <<>>, ""), FlashAt("FlashAssets", "return", 0))

NextFlash == FlashProbe \/ FlashAssetStep \/ ConfigureUBoot \/ FlashReset

SpecFlash == InitFlash /\ [][NextFlash]_vars

(***************************************************************************)
(* What the delimited readers are specified to do.                         *)
(***************************************************************************)
\* the offset of the first occurrence of d in s (Len(s) + 1 when there is none)
FirstOccurrence(d, s) == IF Occurs(d, s) THEN CHOOSE k \in 0..Len(s) : OccursAt(d, s, k) /\ \A j \in 0..(k - 1) : ~OccursAt(d, s, j) ELSE Len(s) + 1

\* the call returned P and left T unread, where stream = P || delim || T at the first occurrence of delim
SplitsAtFirstOccurrence(r) == LET k == FirstOccurrence(delim, stream) IN r.ok /\ r.out = Take(stream, k) /\ r.rest = Drop(stream, k + Len(delim))

(***************************************************************************)
(* The transfer session.                                                   *)
(***************************************************************************)
\* the Write of the two CAN bytes
CancelWrite == BytesWrite(<<asciiCAN, asciiCAN>>, TRUE)

\* the positions of out that hold a Write satisfying Test
WritesWhere(Test(_)) == {i \in 1..Len(out) : Test(out[i])}

IsBlock(e) == e.w = "block"

IsEOT(e) == e.w = "bytes" /\ e.bytes = <<asciiEOT>>

IsCancel(e) == e.w = "bytes" /\ e.bytes = <<asciiCAN, asciiCAN>>

IsInfoBlock(e) == e.w = "block" /\ e.data.src = "bytes" /\ e.data.bytes # <<>>

IsDataBlock(e) == e.w = "block" /\ e.data.src = "file"

\* every Write made so far was taken by the stream
AllWritten == \A i \in 1..Len(out) : out[i].ok

IsPrefix(s, t) == Len(s) <= Len(t) /\ s = Take(t, Len(s))

\* C1: whenever SendTo has returned an error, whatever the step that failed,
\* the Write of CAN CAN is the last Write of the session and the only one of
\* its kind; a session that is still running or has returned success has
\* made no such Write.
C1_CancelTrailerOnEveryFailure ==
    /\ pc = "failed" => err # "none" /\ out # <<>> /\ out[Len(out)] = CancelWrite /\ WritesWhere(IsCancel) = {Len(out)}
    /\ pc = "done" => err = "none"
    /\ pc # "failed" => err = "none" /\ WritesWhere(IsCancel) = {}

\* C1's case: SendTo failed in the termination handshake, after EOT was written
C1_Witness == pc = "failed" /\ WritesWhere(IsEOT) # {} /\ WritesWhere(IsDataBlock) # {}

\* ceil(n / b), not computed the way NumBlocks is
Ceil(n, b) == IF n % b = 0 THEN n \div b ELSE n \div b + 1

\* what the scripted peer of a transfer with d data blocks sends
Script(d) == <<ymodemPOLL, asciiACK, ymodemPOLL>> \o [i \in 1..d |-> asciiACK] \o <<asciiACK, asciiACK, ymodemPOLL, asciiACK>>

\* C2: against the peer that answers POLL, ACK, POLL, one ACK per data block,
\* ACK, ACK, POLL, ACK (with a stream that takes every Write and a file that
\* can be read) SendTo does not fail, has returned success once the script is
\* used up, and has then written exactly ceil(N/blockSize) + 2 blocks (the
\* info block, ceil(N/blockSize) data blocks, the terminator block, in this
\* order) and exactly one EOT.
C2_ScriptedPeerFrameCount ==
    LET d == Ceil(fileSize, size(blockKind))
    IN  (pc # "idle" /\ AllWritten /\ err # "file" /\ IsPrefix(inlog, Script(d))) =>
            /\ pc # "failed"
            /\ inlog = Script(d) =>
                /\ pc = "done"
                /\ Cardinality(WritesWhere(IsBlock)) = d + 2
                /\ Cardinality(WritesWhere(IsEOT)) = 1
                /\ Len(out) = d + 3
                /\ IsInfoBlock(out[1])
                /\ \A i \in 2..(d + 1) : IsDataBlock(out[i])
                /\ IsEOT(out[d + 2])
                /\ IsBlock(out[d + 3]) /\ out[d + 3].data.len = 0

\* C2's case: a file of exactly one large block was sent to the scripted peer
C2_Witness == pc = "done" /\ blockKind = LargeBlock /\ fileSize = size(LargeBlock) /\ inlog = Script(1) /\ Cardinality(WritesWhere(IsBlock)) = 3

\* C3: when the peer answers the info block with NAK, NAK, ACK, a session
\* with retry budget 3 gets past the info block, and a session with retry
\* budget 2 fails with too-many-retries at the second NAK, having sent the
\* info block twice.
C3_InfoRetryBudget ==
    /\ (retryBudget = 3 /\ AllWritten /\ IsPrefix(<<ymodemPOLL, asciiNAK, asciiNAK, asciiACK>>, inlog)) =>
            /\ Cardinality(WritesWhere(IsInfoBlock)) = 3
            /\ Len(inlog) = 4 => pc = "AwaitPollForData"
    /\ (retryBudget = 2 /\ AllWritten /\ IsPrefix(<<ymodemPOLL, asciiNAK, asciiNAK>>, inlog)) =>
            /\ pc = "failed"
            /\ err = "retries"
            /\ Cardinality(WritesWhere(IsInfoBlock)) = 2
            /\ WritesWhere(IsDataBlock) = {}

\* the peer answered the info block with CAN (after NAKs or at once)
InfoAnsweredWithCAN == \E j \in 2..Len(inlog) : inlog[1] = ymodemPOLL /\ inlog[j] = asciiCAN /\ \A i \in 2..(j - 1) : inlog[i] = asciiNAK

\* C4 as claimed: when the peer answers the info block with CAN, SendTo fails
\* with transfer-rejected, whatever the peer sends after the CAN, and the last
\* Write of the session is CAN CAN.
C4_RejectedWhateverFollows == (InfoAnsweredWithCAN /\ pc # "ReadAfterCancel") => pc = "failed" /\ err = "rejected" /\ out[Len(out)] = CancelWrite

\* C4 as amended: when the peer answers the info block with CAN, SendTo fails
\* and its last Write is CAN CAN; it fails with transfer-rejected when the
\* Read that follows the CAN delivers at least one byte, and with the read
\* error when that Read fails.
C4_RejectedIfReadDelivers ==
    (InfoAnsweredWithCAN /\ pc # "ReadAfterCancel") =>
        /\ pc = "failed"
        /\ out[Len(out)] = CancelWrite
        /\ err = IF inlog[Len(inlog)] = ReadError THEN "read" ELSE "rejected"

\* C4's case: the info block was answered with CAN and more bytes
C4_Witness == InfoAnsweredWithCAN /\ pc = "failed" /\ err = "rejected" /\ inlog[Len(inlog)] = asciiCAN /\ out[Len(out)] = CancelWrite

\* C5: the data block after block k, or EOT after the last block, is written
\* only when the response to block k was ACK (any other response makes the
\* session write block k again).
C5_NextBlockOnlyAfterACK == (pc \in {"SendData", "SendEOT"} /\ blockIdx >= 1) => inlog[Len(inlog)] = asciiACK

(***************************************************************************)
(* The delimited readers.                                                  *)
(***************************************************************************)
\* C6: collect-until of a delimiter that occurs in the stream succeeds,
\* returns the bytes before its first occurrence and leaves the bytes after
\* it unread, for ExpectEngine.CollectUntil and for UBootShell.collectUntil.
C6_CollectUntilSplitsStream == (eres.fn \in {"ExpectEngine.CollectUntil", "UBootShell.collectUntil"} /\ Occurs(delim, stream)) => SplitsAtFirstOccurrence(eres)

\* C7: when ExpectEngine.CollectUntil succeeds, the returned buffer followed
\* by the delimiter is the sequence of bytes consumed from the stream.
C7_CollectedThenDelimIsConsumed == (eres.fn = "ExpectEngine.CollectUntil" /\ eres.ok) => eres.out \o delim = Take(stream, Len(stream) - Len(eres.rest))

(***************************************************************************)
(* The shell driver.                                                       *)
(***************************************************************************)
\* C8: with a prompt p discovered and nothing left unread, when the device
\* delivers c "\r\n" o p for an output o that does not contain p, Command(c)
\* returns exactly o.
C8_CommandReturnsOutput ==
    (res.op = "Command" /\ res.had # <<>> /\ res.before = <<>>) =>
        \A o \in Outputs : (~Occurs(res.had, o) /\ res.reply = res.arg[1] \o CRLF \o o \o res.had) => res.ok /\ res.out = o

\* C9: while the prompt is empty, Command, SpecialCommand, SetEnv, SaveEnv
\* and Reset abort without writing or reading a byte, and WaitForPrompt does
\* not report success.
C9_NoPromptNoOperation ==
    res.had = <<>> =>
        /\ res.op \in {"Command", "SpecialCommand", "SetEnv", "SaveEnv", "Reset"} => panicked /\ wr = <<>> /\ rd = res.before
        /\ res.op = "WaitForPrompt" => ~res.ok

\* what C10's stream yields: "\r\n\r\nhisilicon # "
UnterminatedPromptReply == CRLF \o CRLF \o HisiliconPrompt

\* C10 as claimed: ProbePrompt on a stream that yields exactly
\* "\r\n\r\nhisilicon # " (and takes every write) succeeds and records
\* "hisilicon # ".
C10_ProbeUnterminatedPrompt == (res.op = "ProbePrompt" /\ res.arg = <<3>> /\ res.before = <<>> /\ res.reply = UnterminatedPromptReply) => res.ok /\ prompt = HisiliconPrompt

\* C10 as amended: ProbePrompt on a stream that yields "\r\n\r\nhisilicon # "
\* followed by a line terminator ("\n" or "\r\n") succeeds and records
\* "hisilicon # "; on the stream without the terminator it fails and leaves
\* the prompt as it was (the stream takes every write).
C10_ProbeTerminatedPrompt ==
    (res.op = "ProbePrompt" /\ res.arg = <<3>> /\ res.before = <<>>) =>
        /\ res.reply \in {UnterminatedPromptReply \o LF, UnterminatedPromptReply \o CRLF} => res.ok /\ prompt = HisiliconPrompt /\ rd = <<>>
        /\ res.reply = UnterminatedPromptReply => ~res.ok /\ prompt = res.had /\ rd = <<>>

\* C10's case: the terminated prompt line was read on a new driver
C10_Witness == res.op = "ProbePrompt" /\ res.had = <<>> /\ res.before = <<>> /\ res.reply = UnterminatedPromptReply \o LF /\ res.ok /\ prompt = HisiliconPrompt

(***************************************************************************)
(* The observer.                                                           *)
(***************************************************************************)
\* how often the observer's method m was called
Calls(m) == Cardinality({i \in 1..Len(observed) : observed[i][1] = m})

\* C11: in a session with an observer, a successful SendTo has called Start
\* and Finish exactly once each, and a failed SendTo, whatever the step that
\* failed, has called none of Start, Progress and Finish.
C11_ObserverOnlyOnSuccess ==
    hasObserver =>
        /\ pc = "done" => Calls("Start") = 1 /\ Calls("Finish") = 1
        /\ pc = "failed" => observed = <<>>

(***************************************************************************)
(* SendFile.                                                               *)
(***************************************************************************)
\* C12: the bytes that uboot.reader had pulled from the stream and not handed
\* out when SendFile began are the first input of the transfer session: its
\* first read delivers the first of them.
C12_BufferedBytesReachTransfer == (res.op \in {"SendFile.SendTo", "SendFile"} /\ res.before # <<>> /\ inlog # <<>>) => inlog[1] = res.before[1]

\* C13: SendFile runs a session with large blocks and the retry budget 10;
\* while SendTo runs nothing is read from uboot.reader; SendFile returns
\* success only if SendTo returned success and the prompt was then found in
\* the input, fails when it was not found, and when SendTo failed it returns
\* the failure without reading anything in wait for the prompt.
C13_SendFileThenWaitForPrompt ==
    /\ (res.op \in {"SendFile.SendTo", "SendFile"} /\ pc # "idle") =>
            /\ blockKind = LargeBlock
            /\ retryBudget = 10
            /\ \A i \in WritesWhere(IsBlock) : out[i].kind = LargeBlock
    /\ res.op = "SendFile.SendTo" => rd = res.before
    /\ (res.op = "SendFile" /\ res.ok) => pc = "done" /\ err = "none" /\ Occurs(prompt, res.before \o res.reply)
    /\ (res.op = "SendFile" /\ pc = "done" /\ ~Occurs(prompt, res.before \o res.reply)) => ~res.ok
    /\ (res.op = "SendFile" /\ pc = "failed") => ~res.ok /\ err # "none" /\ rd = res.before /\ out[Len(out)] = CancelWrite

\* C13's case: a file of at least one block was sent and the prompt seen
C13_Witness == res.op = "SendFile" /\ res.ok /\ pc = "done" /\ WritesWhere(IsDataBlock) # {} /\ res.reply # <<>>

(***************************************************************************)
(* The block frame and its CRC.                                            *)
(***************************************************************************)
\* C14: for a payload of at most blockSize bytes the frame written by
\* sendBlock has blockSize + 5 bytes: 0x01 (small) or 0x02 (large), idx,
\* 255 - idx, the payload followed by the padding byte up to blockSize, then
\* crc >> 8 and crc & 0xFF of the crc16 of exactly those blockSize bytes.
C14_FrameLayout ==
    (frame.called /\ Len(blk.data) <= size(blk.blockKind)) =>
        LET n == size(blk.blockKind)
            f == frame.bytes
            c == crc16(SubSeq(f, 4, n + 3))
        IN  /\ Len(f) = n + 5
            /\ f[1] = IF blk.blockKind = SmallBlock THEN 1 ELSE 2
            /\ f[2] = blk.blockIdx
            /\ f[3] = 255 - blk.blockIdx
            /\ \A i \in 1..n : f[3 + i] = IF i <= Len(blk.data) THEN blk.data[i] ELSE blk.padding
            /\ f[n + 4] = c \div 256
            /\ f[n + 5] = c % 256

\* C14's case: small block 1 with 128 zero bytes and padding 0x00
C14_Witness == frame.called /\ blk = [blockKind |-> SmallBlock, blockIdx |-> 1, data |-> [i \in 1..128 |-> 0], padding |-> 0] /\ Len(frame.bytes) = 133 /\ frame.bytes[3] = 254

\* the eight shifts of the CRC-16/XMODEM register for one byte
RECURSIVE XmodemShift(_, _)
XmodemShift(c, n) == IF n = 0 THEN c ELSE XmodemShift(IF c >= 32768 THEN Xor((c * 2) % 65536, 4129) ELSE c * 2, n - 1)

\* CRC-16/XMODEM of data[k..], byte by byte with the register c: the byte is
\* XORed into the high half of the register, which is then shifted eight times
RECURSIVE XmodemFrom(_, _, _)
XmodemFrom(c, data, k) == IF k > Len(data) \/ c \notin uint16 THEN c ELSE XmodemFrom(XmodemShift(Xor(c, data[k] * 256), 8), data, k + 1)

\* the standard CRC-16/XMODEM: polynomial 0x1021, initial value 0x0000, MSB
\* first, no reflection, no XOR-out
CrcXmodem(data) == XmodemFrom(0, data, 1)

\* C15: crc16 returns 0x0000 for the empty input, 0x31C3 for "123456789",
\* and for every input the CRC-16/XMODEM of that input.
C15_Crc16IsXmodem ==
    crc.called =>
        /\ crc.value = CrcXmodem(crcData)
        /\ crcData = <<>> => crc.value = 0
        /\ crcData = Digits => crc.value = 12739

\* C15's case: the check value of "123456789"
C15_Witness == crc.called /\ crcData = Digits /\ crc.value = 12739

(***************************************************************************)
(* The contents of the blocks.                                             *)
(***************************************************************************)
\* the Writes of the info block: the blocks written before EOT and before
\* any data block
InfoEmissions == {i \in 1..Len(out) : \A j \in 1..i : out[j].w = "block" /\ out[j].data.src = "bytes"}

\* the basenames of the paths of FileNames: "OHOS_Image.bin", "rootfs.img"
Basename(path) == IF path[1] = 47 THEN SubSeq(path, 6, Len(path)) ELSE path

\* the number that the decimal digits ds write (-1 if they are not digits)
RECURSIVE DecimalValue(_)
DecimalValue(ds) ==
    IF ds = <<>> THEN 0
    ELSE IF ds[Len(ds)] \notin 48..57 THEN -1
    ELSE LET high == DecimalValue(Take(ds, Len(ds) - 1)) IN IF high < 0 THEN -1 ELSE 10 * high + (ds[Len(ds)] - 48)

\* C16: the first block written is the info block; every Write of the info
\* block carries index 0 and padding 0x00, and
\* its payload is the file's basename, one NUL byte, then the file size in
\* decimal without leading zeros; it fits the block, and every re-emission is
\* the same Write as the first.
C16_InfoBlockContents ==
    /\ WritesWhere(IsBlock) # {} => 1 \in InfoEmissions
    /\ \A i \in InfoEmissions :
        LET e == out[i]
            payload == e.data.bytes
            nameLen == Len(Basename(fileName))
            digits == Drop(payload, nameLen + 1)
        IN  /\ e.idx = 0
            /\ e.padding = 0
            /\ e.kind = blockKind
            /\ Len(payload) <= size(blockKind)
            /\ Len(payload) > nameLen + 1
            /\ Take(payload, nameLen) = Basename(fileName)
            /\ payload[nameLen + 1] = 0
            /\ DecimalValue(digits) = fileSize
            /\ (Len(digits) > 1 => digits[1] # 48)
            /\ [e EXCEPT !.ok = TRUE] = [out[1] EXCEPT !.ok = TRUE]

\* C16's case: "OHOS_Image.bin\x001024" sent, refused with NAK and sent again
C16_Witness == 2 \in InfoEmissions /\ fileSize = 1024 /\ out[2].data.bytes = <<79, 72, 79, 83, 95, 73, 109, 97, 103, 101, 46, 98, 105, 110, 0, 49, 48, 50, 52>>

\* the Writes of data blocks, in order
DataWrites == WritesWhere(IsDataBlock)

\* the position in out of the k-th data block
DataWriteAt(k) == CHOOSE i \in DataWrites : Cardinality({j \in DataWrites : j <= i}) = k

Min(a, b) == IF a < b THEN a ELSE b

\* C17: in a successful transfer of N bytes with block size B there are
\* ceil(N/B) data blocks, the k-th carries the file bytes from (k-1)*B up to
\* min(k*B, N) - 1 and is filled up with 0x1A, so that the payloads together
\* are the N bytes of the file.
C17_DataBlocksCarryTheFile ==
    pc = "done" =>
        LET B == size(blockKind)
            N == fileSize
        IN  /\ Cardinality(DataWrites) = Ceil(N, B)
            /\ \A k \in 1..Ceil(N, B) :
                LET e == out[DataWriteAt(k)]
                IN  /\ e.kind = blockKind
                    /\ e.padding = 26
                    /\ e.data.off = (k - 1) * B
                    /\ e.data.off + e.data.len = Min(k * B, N)
                    /\ (k = Ceil(N, B) /\ N % B # 0) => e.data.len = N % B

\* C17's case: 2500 bytes in three large blocks, the last with 452 bytes
C17_Witness == pc = "done" /\ blockKind = LargeBlock /\ fileSize = 2500 /\ Cardinality(DataWrites) = 3 /\ out[DataWriteAt(3)].data = FilePayload(2048, 452)

(***************************************************************************)
(* Flashing.                                                               *)
(***************************************************************************)
\* the call c is one that flashing the partition called name makes: the
\* memory fill of its size, the transfer of one of its files, the erase of
\* its flash range or the write to it
Touches(c, name) ==
    \/ c.cmd = "mw.b %#x 0xff %#x" /\ c.nums[2] = Partitions[name].writeSize
    \/ c.fn = "SendFile" /\ c.path \in {p[name] : p \in AssetPaths}
    \/ c.cmd = "sf erase %#x %#x" /\ c.nums[1] = Partitions[name].flashAddr
    \/ c.cmd = "sf write %#x %#x %#x" /\ c.nums[2] = Partitions[name].flashAddr

\* the positions of sent that hold a call satisfying Test
CallsWhere(Test(_)) == {i \in 1..Len(sent) : Test(sent[i])}

IsLoadY(c) == c.cmd = "loady %#x"

AssetNames == {"bootloader", "kernel", "rootfs", "userfs"}

\* C18: no call that touches the partition of an asset with an empty path is
\* made, and loady is called at most once per asset with a path; when
\* FlashAssets returns nil it has made the four calls that touch the
\* partition of every asset with a path, one loady for each of them, and
\* its last calls are the two SetEnv, SaveEnv and Reset.
C18_EmptyAssetsAreSkipped ==
    LET given == {name \in AssetNames : assets[name] # ""}
    IN  flashPc.fn # "idle" =>
            /\ \A name \in AssetNames \ given : \A i \in 1..Len(sent) : ~Touches(sent[i], name)
            /\ Cardinality(CallsWhere(IsLoadY)) <= Cardinality(given)
            /\ (flashPc.at = "return" /\ ~flashErr) =>
                /\ \A name \in given : Cardinality({i \in 1..Len(sent) : Touches(sent[i], name)}) = 4
                /\ Cardinality(CallsWhere(IsLoadY)) = Cardinality(given)
                /\ Len(sent) = 2 + 5 * Cardinality(given) + 4
                /\ [i \in 1..4 |-> sent[Len(sent) - 4 + i].fn] = <<"SetEnv", "SetEnv", "SaveEnv", "Reset">>

\* C18's case: FlashAssets returned nil with the bootloader and the userfs
\* left out
C18_Witness == flashPc.fn # "idle" /\ flashPc.at = "return" /\ ~flashErr /\ assets.bootloader = "" /\ assets.userfs = "" /\ assets.kernel # "" /\ assets.rootfs # "" /\ Len(sent) = 16

(***************************************************************************)
(* The prompt.                                                             *)
(***************************************************************************)
\* C19: an operation that begins with a non-empty prompt recorded on the
\* driver ends with the same prompt recorded, whatever the operation and
\* whether it succeeds or fails.
C19_PromptNeverChanges == res.had # <<>> => prompt = res.had

(***************************************************************************)
(* Overlapping delimiters.                                                 *)
(***************************************************************************)
\* "ababab"
Ababab == <<97, 98, 97, 98, 97, 98>>

\* C20 as claimed: collect-until of "abab" on the input "ababab" returns "ab"
\* and leaves "ab" unread.
C20_AbabReturnsAb == (eres.fn \in {"ExpectEngine.CollectUntil", "UBootShell.collectUntil"} /\ delim = Abab /\ stream = Ababab) => eres.ok /\ eres.out = <<97, 98>> /\ eres.rest = <<97, 98>>

\* C20 as amended: collect-until of "abab" on the input "ababab" returns the
\* empty string, the delimiter being matched at the very start of the input,
\* and leaves "ab" unread.
C20_AbabReturnsNothing == (eres.fn \in {"ExpectEngine.CollectUntil", "UBootShell.collectUntil"} /\ delim = Abab /\ stream = Ababab) => eres.ok /\ eres.out = <<>> /\ eres.rest = <<97, 98>>

\* C20's case: CollectUntil("abab") was called on "ababab"
C20_Witness == eres.fn = "ExpectEngine.CollectUntil" /\ delim = Abab /\ stream = Ababab /\ eres.ok /\ Len(eres.rest) = 2

(***************************************************************************)
(* Interrupting the boot.                                                  *)
(***************************************************************************)
\* what InterruptBoot had to read: the bytes left unread before it and the
\* bytes the device delivered while it ran
BootInput == res.before \o res.reply

\* the number of bytes of BootInput up to the end of the first autoboot message
AfterAutoboot == FirstOccurrence(AutobootMessage, BootInput) + Len(AutobootMessage)

\* C21: InterruptBoot writes its single "\n" only when the autoboot message
\* has been read in full, and succeeds only when a "\n" after the message
\* has been read as well (it stops at the first one); when the input ends
\* before the message is seen it fails and has written nothing.
C21_NewlineOnlyAfterAutoboot ==
    res.op = "InterruptBoot" =>
        /\ wr \in {<<>>, LF}
        /\ wr = LF => Occurs(AutobootMessage, BootInput) /\ Len(BootInput) - Len(rd) >= AfterAutoboot
        /\ res.ok =>
            /\ wr = LF
            /\ LET tail == Drop(BootInput, AfterAutoboot)
               IN  Occurs(LF, tail) /\ rd = Drop(tail, FirstOccurrence(LF, tail) + 1)
        /\ ~Occurs(AutobootMessage, BootInput) => ~res.ok /\ wr = <<>> /\ rd = <<>>

\* C21's case: the boot was interrupted, the message and the rest of its line read
C21_Witness == res.op = "InterruptBoot" /\ res.ok /\ wr = LF /\ Occurs(AutobootMessage, res.reply) /\ rd = HisiliconPrompt

(***************************************************************************)
(* The lock-step of the session.  Every read of the stream is logged in    *)
(* inlog and every Write in out, so the reads that came before a Write are *)
(* counted from the Writes made so far: one read for the initial POLL, one *)
(* response per info block, one read for the data POLL, one response per   *)
(* data block, and the reads of the termination handshake.                 *)
(***************************************************************************)
IsTerminatorBlock(e) == e.w = "block" /\ e.data.src = "bytes" /\ e.data.bytes = <<>>

\* the number of info blocks and of data blocks written so far
NInfo == Cardinality(WritesWhere(IsInfoBlock))

NData == Cardinality(WritesWhere(IsDataBlock))

\* the positions in inlog of the response to the last info block, of the
\* read that waits for the data POLL, and of the j-th read after EOT
InfoAckAt == NInfo + 1

DataPollAt == NInfo + 2

TermAt(j) == NInfo + 2 + NData + j

\* what the four reads after EOT expect
TermExpected == <<asciiACK, asciiACK, ymodemPOLL, asciiACK>>

\* the session has failed and the Write at the end of out, before the CAN
\* CAN of the deferred function, satisfies Test: nothing was written after it
FailedRightAfter(Test(_)) == pc = "failed" /\ Len(out) >= 2 /\ out[Len(out)] = CancelWrite /\ Test(out[Len(out) - 1])

\* C22: the info block is written only after a POLL was read; the first data
\* block only after the ACK of the info block and a POLL after it; each
\* further data block and the EOT only after the response to the data block
\* before was read; the terminator block only after ACK, ACK, POLL were read
\* after the EOT; and success is returned only after the final ACK.  A read
\* that does not deliver the expected byte at the initial POLL, at the data
\* POLL or at one of the four reads of the termination fails the session
\* with no Write after it but the CAN CAN of the abort.
C22_LockStep ==
    pc # "idle" =>
        /\ \A i \in 1..Len(out) : ~IsCancel(out[i]) => inlog # <<>> /\ inlog[1] = ymodemPOLL
        /\ NData >= 1 =>
            /\ Len(inlog) >= DataPollAt + NData - 1
            /\ \A i \in 2..NInfo : inlog[i] = asciiNAK
            /\ inlog[InfoAckAt] = asciiACK
            /\ inlog[DataPollAt] = ymodemPOLL
        /\ WritesWhere(IsEOT) # {} =>
            /\ Len(inlog) >= DataPollAt + NData
            /\ inlog[InfoAckAt] = asciiACK
            /\ inlog[DataPollAt] = ymodemPOLL
            /\ NData = Ceil(fileSize, size(blockKind))
        /\ WritesWhere(IsTerminatorBlock) # {} =>
            /\ Len(inlog) >= TermAt(3)
            /\ \A j \in 1..3 : inlog[TermAt(j)] = TermExpected[j]
        /\ pc = "done" =>
            /\ WritesWhere(IsTerminatorBlock) = {Len(out)}
            /\ Len(inlog) = TermAt(4)
            /\ inlog[TermAt(4)] = asciiACK
        /\ (inlog # <<>> /\ inlog[1] # ymodemPOLL) => pc = "failed" /\ out = <<CancelWrite>>
        /\ (NInfo >= 1 /\ Len(inlog) >= DataPollAt /\ inlog[InfoAckAt] = asciiACK /\ inlog[DataPollAt] # ymodemPOLL) =>
            FailedRightAfter(IsInfoBlock) /\ Len(out) = NInfo + 1
        /\ \A j \in 1..4 :
            (WritesWhere(IsEOT) # {} /\ Len(inlog) >= TermAt(j) /\ inlog[TermAt(j)] # TermExpected[j]) =>
                /\ Len(inlog) = TermAt(j)
                /\ IF j = 4 THEN FailedRightAfter(IsTerminatorBlock)
                   ELSE FailedRightAfter(IsEOT) /\ WritesWhere(IsTerminatorBlock) = {}

\* C22's case: a session whose info block was sent twice and that sent two
\* data blocks has gone through the whole handshake
C22_Witness == pc = "done" /\ NInfo = 2 /\ NData = 2 /\ Len(inlog) = 10

(***************************************************************************)
(* Probing the prompt.                                                     *)
(***************************************************************************)
\* what ProbePrompt had to read
ProbeInput == res.before \o res.reply

\* the positions of the "\n" bytes of ProbeInput, and the k-th of them (0 for k = 0)
ProbeNewlines == {i \in 1..Len(ProbeInput) : ProbeInput[i] = 10}

ProbeNewlineAt(k) == IF k = 0 THEN 0 ELSE CHOOSE i \in ProbeNewlines : Cardinality({j \in ProbeNewlines : j <= i}) = k

\* the k-th line of ProbeInput, its "\n" included
ProbeLine(k) == SubSeq(ProbeInput, ProbeNewlineAt(k - 1) + 1, ProbeNewlineAt(k))

\* l without the "\r" and "\n" bytes at its end
WithoutLineEnd(l) == LET n == CHOOSE n \in 0..Len(l) : (n = 0 \/ l[n] \notin {13, 10}) /\ \A j \in (n + 1)..Len(l) : l[j] \in {13, 10} IN Take(l, n)

\* the lines among the first three of ProbeInput that are not empty once trimmed
ProbeCandidates == {k \in 1..3 : k <= Cardinality(ProbeNewlines) /\ WithoutLineEnd(ProbeLine(k)) # <<>>}

\* n "\n" bytes
Newlines(n) == [i \in 1..n |-> 10]

\* C23: ProbePrompt writes at most three "\n" bytes, one before each line it
\* reads; it succeeds exactly when one of the first three lines is not empty
\* after right-trimming "\r" and "\n" and the writes up to that line were
\* taken, records the first such line, trimmed, as the prompt and reads no
\* further; when the three lines trim to empty, or a read or a write fails,
\* it returns an error and the prompt stays as it was.
C23_ProbePromptAttempts ==
    res.op = "ProbePrompt" =>
        LET taken == res.arg[1]
            consumed == Len(ProbeInput) - Len(rd)
            linesRead == Cardinality({i \in ProbeNewlines : i <= consumed})
        IN  /\ \E n \in 0..3 : wr = Newlines(n) /\ n <= taken /\ linesRead <= n
            /\ rd = Drop(ProbeInput, consumed)
            /\ res.ok <=> \E k \in ProbeCandidates : k <= taken
            /\ res.ok =>
                LET first == CHOOSE k \in ProbeCandidates : \A j \in ProbeCandidates : k <= j
                IN  /\ prompt = WithoutLineEnd(ProbeLine(first))
                    /\ wr = Newlines(first)
                    /\ consumed = ProbeNewlineAt(first)
            /\ ~res.ok =>
                /\ prompt = res.had
                /\ Len(wr) < 3 => (Len(wr) = taken /\ linesRead = taken) \/ (rd = <<>> /\ linesRead = Len(wr) - 1)

\* C23's case: the prompt was found on the third line, after two empty ones
C23_Witness == res.op = "ProbePrompt" /\ res.ok /\ wr = Newlines(3) /\ res.reply = CRLF \o CRLF \o HisiliconPrompt \o CRLF /\ prompt = HisiliconPrompt /\ rd = <<>>

(***************************************************************************)
(* Discarding and collecting.                                              *)
(***************************************************************************)
\* the results r and q agree on everything but the returned buffer: both
\* calls succeeded and left the same bytes unread, or both failed
SameButBuffer(r, q) == r.ok = q.ok /\ (r.ok => r.rest = q.rest)

\* the call of UBootShell.discardUntil ended as UBootShell.collectUntil ends
\* on the same delimiter and stream, and likewise for ExpectEngine
UBootShellPairAgrees == eres.fn = "UBootShell.discardUntil" => SameButBuffer(eres, collectUntil(delim, stream))

ExpectEnginePairAgrees == eres.fn = "ExpectEngine.DiscardUntil" => SameButBuffer(eres, CollectUntil(delim, stream))

\* C24: started on the same stream with the same delimiter, discard-until
\* and collect-until of one component both succeed having consumed the same
\* number of bytes, or both fail; for UBootShell.discardUntil and
\* UBootShell.collectUntil, and for ExpectEngine.DiscardUntil and
\* ExpectEngine.CollectUntil.
C24_DiscardIsCollectWithoutBuffer == UBootShellPairAgrees /\ ExpectEnginePairAgrees

(***************************************************************************)
(* No match that is not there.                                             *)
(***************************************************************************)
\* the bytes that the call took from the stream
Consumed == Take(stream, Len(stream) - Len(eres.rest))

\* C25: each of the four delimited readers returns success only when the
\* last Len(delim) bytes it consumed are the delimiter; when the delimiter
\* does not occur in the stream it consumes the stream to its end and fails.
C25_NoFalseMatch ==
    eres.fn # "none" =>
        /\ stream = Consumed \o eres.rest
        /\ eres.ok => Len(Consumed) >= Len(delim) /\ Drop(Consumed, Len(Consumed) - Len(delim)) = delim
        /\ ~Occurs(delim, stream) => ~eres.ok /\ eres.rest = <<>>

\* C25's case: UBootShell.discardUntil met the first byte of "ab" twice
\* before it matched, and stopped right behind the match
C25_Witness == eres.fn = "UBootShell.discardUntil" /\ delim = <<97, 98>> /\ stream = <<97, 97, 98, 99>> /\ eres.ok /\ eres.rest = <<99>>

(***************************************************************************)
(* Block indexes and padding.                                              *)
(***************************************************************************)
\* the Write made last is a block that the stream took
LastBlockWritten == out # <<>> /\ IsBlock(out[Len(out)]) /\ out[Len(out)].ok

\* C26: in every session the info block and the terminator block carry index
\* 0 and padding 0x00; the data blocks follow the info blocks, and the k-th
\* of them carries index k mod 256 and padding 0x1A, so that the 256th
\* carries index 0 and the session goes on as after any other block (it
\* fails with no protocol error before EOT); and the frame that sendBlock
\* makes of a block carries the index and then 255 - index.
C26_IndexAndPadding ==
    pc # "idle" =>
        LET ni == NInfo
            nd == NData
        IN  /\ \A i \in 1..Len(out) : (IsInfoBlock(out[i]) \/ IsTerminatorBlock(out[i])) => out[i].idx = 0 /\ out[i].padding = 0
            /\ \A k \in 1..nd : IsDataBlock(out[ni + k]) /\ out[ni + k].idx = k % 256 /\ out[ni + k].padding = 26
            /\ (nd >= 256 /\ WritesWhere(IsEOT) = {} /\ pc = "failed") => err \in {"read", "write", "file"}
            /\ (LastBlockWritten /\ pc \in {"InfoResponse", "DataResponse", "FinalAck"}) =>
                LET b == out[Len(out)]
                    f == sendBlock(b.kind, b.idx, <<>>, b.padding)
                IN  f[2] = b.idx /\ f[3] = 255 - b.idx

\* C26's case: the long session has returned success, its 255th, 256th and
\* 257th data block carrying the indexes 255, 0 and 1
C26_Witness == pc = "done" /\ NData >= 257 /\ out[NInfo + 255].idx = 255 /\ out[NInfo + 256].idx = 0 /\ out[NInfo + 257].idx = 1

(***************************************************************************)
(* The retry budget in the data phase.                                     *)
(***************************************************************************)
\* the positions in inlog of the responses to data blocks read so far
DataResponsesRead == IF NData = 0 THEN {} ELSE {i \in (DataPollAt + 1)..Min(Len(inlog), DataPollAt + NData) : inlog[i] # ReadError}

\* those that are not ACK, and the NAKs of the info block
DataNonAcks == {i \in DataResponsesRead : inlog[i] # asciiACK}

InfoNaks == {i \in 2..Min(Len(inlog), InfoAckAt) : inlog[i] = asciiNAK}

\* the non-ACK responses after which the session went on
AcceptedNonAcks == IF err = "retries" /\ DataNonAcks # {} THEN Cardinality(DataNonAcks) - 1 ELSE Cardinality(DataNonAcks)

\* C27: in the data phase every response other than ACK takes one from the
\* retry budget, the session fails with too-many-retries as soon as the
\* budget is used up, and so a session configured with budget R, whatever R
\* in 0..MaxRetry and however much of it the NAKs of the info block have
\* used, goes on after at most R non-ACK responses.
C27_DataRetriesBounded ==
    (pc # "idle" /\ NData >= 1) =>
        /\ retryCount = retryBudget - Cardinality(InfoNaks) - Cardinality(DataNonAcks)
        /\ (DataNonAcks # {} /\ retryCount <= 0) => pc = "failed" /\ err = "retries"
        /\ AcceptedNonAcks <= retryBudget

(***************************************************************************)
(* Progress.                                                               *)
(***************************************************************************)
\* the k-th data block was answered with ACK
Acked(k) == k <= NData /\ DataPollAt + k <= Len(inlog) /\ inlog[DataPollAt + k] = asciiACK

\* the total payload length of those of the first k data blocks that were
\* answered with ACK
RECURSIVE AckedBytes(_)
AckedBytes(k) == IF k = 0 THEN 0 ELSE AckedBytes(k - 1) + (IF Acked(k) THEN out[NInfo + k].data.len ELSE 0)

\* C28: at every point of a session bytes-sent is the total payload length
\* of the data blocks answered with ACK, and the observer has had one
\* Progress call for each of those blocks and none for a block answered
\* with NAK or any other byte.
C28_ProgressOnlyAfterACK ==
    pc # "idle" =>
        /\ fileBytesSent = AckedBytes(NData)
        /\ hasObserver => Calls("Progress") = Cardinality({k \in 1..NData : Acked(k)})

(***************************************************************************)
(* The order of the steps of FlashAssets.                                  *)
(***************************************************************************)
IsErase(c) == c.fn = "Command" /\ c.cmd = "sf erase %#x %#x"

IsWrite(c) == c.fn = "Command" /\ c.cmd = "sf write %#x %#x %#x"

IsConfigure(c) == c.fn \in {"SetEnv", "SaveEnv"}

\* FlashAssets has returned
FlashReturned == flashPc.fn = "FlashAssets" /\ flashPc.at = "return"

\* C29: FlashAssets makes a call only when every call before it succeeded.
\* "sf erase" for an asset comes right after the SendFile of that asset's
\* file, "sf write" right after the "sf erase" of the same partition; SetEnv
\* and SaveEnv come after the "sf write" of every asset that has a path, and
\* only SetEnv, SaveEnv and Reset follow them; Reset is the last call, right
\* after SaveEnv.  A failed call makes FlashAssets return, and once it has
\* returned no further call is made.
C29_StepsOnlyAfterSuccess ==
    flashPc.fn # "idle" =>
        /\ \A i \in 1..Len(sent) :
            /\ IsErase(sent[i]) =>
                /\ i > 1 /\ sent[i - 1].fn = "SendFile"
                /\ \E name \in AssetNames : assets[name] # "" /\ sent[i - 1].path = assets[name] /\ sent[i].nums[1] = Partitions[name].flashAddr
            /\ IsWrite(sent[i]) => i > 1 /\ IsErase(sent[i - 1]) /\ sent[i - 1].nums[1] = sent[i].nums[2]
            /\ IsConfigure(sent[i]) =>
                /\ \A name \in AssetNames : assets[name] # "" => \E j \in 1..(i - 1) : IsWrite(sent[j]) /\ sent[j].nums[2] = Partitions[name].flashAddr
                /\ \A j \in (i + 1)..Len(sent) : sent[j].fn \in {"SetEnv", "SaveEnv", "Reset"}
            /\ sent[i].fn = "Reset" => i = Len(sent) /\ i > 1 /\ sent[i - 1].fn = "SaveEnv" /\ FlashReturned
        /\ flashErr => FlashReturned /\ sent # <<>>
        /\ FlashReturned => ~ENABLED NextFlash

\* C29's case: the write to flash of the rootfs failed, after the bootloader
\* and the kernel were flashed, and FlashAssets returned
C29_Witness == FlashReturned /\ flashErr /\ assets.bootloader # "" /\ assets.kernel # "" /\ assets.rootfs # "" /\ Len(sent) = 17 /\ IsWrite(sent[17])

(***************************************************************************)
(* The bytes after CAN.                                                    *)
(***************************************************************************)
\* the position in inlog of the CAN that answered the info block
InfoCanAt == CHOOSE j \in 2..Len(inlog) : inlog[j] = asciiCAN /\ \A i \in 2..(j - 1) : inlog[i] = asciiNAK

\* C30: a session whose info block was answered with CAN and that failed
\* with transfer-rejected has consumed exactly 3 bytes after the CAN, however
\* many bytes each Read of the stream delivered.
C30_ThreeBytesAfterCAN == (InfoAnsweredWithCAN /\ pc = "failed" /\ err = "rejected") => Len(inlog) = InfoCanAt + 3

(***************************************************************************)
(* Special commands.                                                       *)
(***************************************************************************)
\* the text and the sentinel of the special command that ran last: those
\* handed to SpecialCommand, "reset" and "resetting .." for Reset
SpecialText == IF res.op = "Reset" THEN ResetCmd ELSE res.arg[1]

SpecialAfter == IF res.op = "Reset" THEN ResetMessage ELSE res.arg[2]

\* what the special command had to read, and what it took of it
SpecialInput == res.before \o res.reply

SpecialConsumed == Take(SpecialInput, Len(SpecialInput) - Len(rd))

\* C31: SpecialCommand(text, after) on a driver with a discovered prompt
\* writes text "\n" whatever it goes on to read; it returns success only
\* when it has consumed the echo text "\r\n" and behind it the literal
\* after, and it stops right behind that literal: a prompt that follows
\* stays unread, and no prompt need follow.  Reset does the same with the
\* text "reset" and the literal "resetting ..".
C31_SpecialCommandStopsAtSentinel ==
    (res.op \in {"SpecialCommand", "Reset"} /\ res.had # <<>>) =>
        LET echo == SpecialText \o CRLF
            n == Len(SpecialConsumed)
        IN  /\ ~panicked /\ prompt = res.had
            /\ wr = SpecialText \o LF
            /\ rd = Drop(SpecialInput, n)
            /\ res.ok =>
                /\ n >= Len(echo) + Len(SpecialAfter)
                /\ Drop(SpecialConsumed, n - Len(SpecialAfter)) = SpecialAfter
                /\ Occurs(echo, Take(SpecialConsumed, n - Len(SpecialAfter)))
            /\ ~res.ok => rd = <<>>
            /\ (res.before = <<>> /\ res.reply = echo \o SpecialAfter) => res.ok /\ rd = <<>>
            /\ (res.before = <<>> /\ res.reply = echo \o SpecialAfter \o res.had) => res.ok /\ rd = res.had

\* C31's case: "getinfo version" was sent as a special command, echo and
\* sentinel were read and the prompt behind them was left unread
C31_Witness == res.op = "SpecialCommand" /\ res.arg[1] = GetInfoVersion /\ res.ok /\ wr = GetInfoVersion \o LF /\ res.had = HisiliconPrompt /\ rd = HisiliconPrompt

=============================================================================
